---- MODULE Spec2Model ----
(***************************************************************************)
(* Productivity-Agent: the task pipeline                                   *)
(*   collected tasks -> PriorityAgent.prioritize_tasks                     *)
(*                   -> PlannerAgent.create_plan                           *)
(*                   -> PlanEvaluator.evaluate_plan                        *)
(* together with the MemoryBank preference the priority agent reads.       *)
(*                                                                         *)
(* Encodings.                                                              *)
(*  - A task is a record name/priority/category/estimated_duration/        *)
(*    deadline.  Names, priorities and categories are strings.             *)
(*  - A deadline is an integer code.  DlNoKey: the dict has no "deadline"  *)
(*    key (plain-text input path).  DlNone: the key holds None (JSON path  *)
(*    through CollectorAgent._normalize).  DlEmpty: the empty string.      *)
(*    1..MaxIso: an ISO-8601 date string; the code n stands for the date   *)
(*    n - IsoToday days away from now, so the lexicographic order of the   *)
(*    strings is the order of the codes.  DlText: a string that            *)
(*    datetime.fromisoformat rejects, such as "today"; it starts with a    *)
(*    letter and so compares above every ISO string.                       *)
(*  - A priority_score is a Python float.  It is kept as an integer in     *)
(*    tenths of a hundredth: 10 * hundredths, plus or minus 1 where the    *)
(*    IEEE-754 double differs by one unit in the last place from the       *)
(*    double nearest to the decimal value.                                 *)
(*  - A datetime is the number of minutes since today's midnight; its      *)
(*    isoformat() string is the triple <<day, hour, minute>>.              *)
(***************************************************************************)
EXTENDS Integers, Sequences, FiniteSets, TLC

VARIABLES preferences, tasks, prioritized, plan, user_preferences,
          evaluation, pc,
          completed_list, planned_list, reflection,
          memory, disk, clock, calls,
          raw_tasks, session_id, message_queue, reminders, bundle,
          sessions, seconds, outcome

\* the lists handed to the reflection agent and its result
reflectVars == <<completed_list, planned_list, reflection>>

\* the memory banks, the file they share, the wall clock and the log of the
\* mutating calls that returned
storeVars == <<memory, disk, clock, calls>>

\* the pipeline's data
pipeVars == <<preferences, tasks, prioritized, plan, user_preferences,
              evaluation>>

\* a run of process_tasks: its arguments, the orchestrator's message queue,
\* the reminder stage's output and the returned bundle
runVars == <<raw_tasks, session_id, message_queue, reminders, bundle>>

\* the session service: its session map, the wall clock in seconds and
\* what the last call returned
sessionVars == <<sessions, seconds, outcome>>

vars == <<preferences, tasks, prioritized, plan, user_preferences,
          evaluation, pc,
          completed_list, planned_list, reflection,
          memory, disk, clock, calls,
          raw_tasks, session_id, message_queue, reminders, bundle,
          sessions, seconds, outcome>>

(***************************************************************************)
(* Bounds of the model.                                                    *)
(***************************************************************************)
MaxTasks == 3
MaxSchedTasks == 3
MaxPlanLen == 3
MaxHighRun == 9
MaxCompleted == 2
MaxPlanned == 2
MaxHistory == 2
MaxStores == 3
MaxCalls == 2
MaxRunTasks == 2
MaxSessionCalls == 3
MaxElapsed == 3601

(***************************************************************************)
(* Values.                                                                 *)
(***************************************************************************)
Absent == "<absent>"
DlNoKey == -2
DlNone == -1
DlEmpty == 0
MaxIso == 10
IsoToday == 2
DlText == 99
NoneDays == -1
NoPref == -1

SeqsUpTo(S, n) == UNION {[1..k -> S] : k \in 0..n}

Max(a, b) == IF a >= b THEN a ELSE b

RECURSIVE SumSeq(_)
SumSeq(s) == IF s = <<>> THEN 0 ELSE Head(s) + SumSeq(Tail(s))

\* sorted(xs, key=...): Python's sort is stable, so the element at input
\* position i lands after every element with a smaller key and after every
\* earlier element with an equal key.  keys is the sequence of integer keys.
SortedPos(keys, i) ==
    1 + Cardinality({j \in 1..Len(keys) :
                       \/ keys[j] < keys[i]
                       \/ keys[j] = keys[i] /\ j < i})

StableSort(xs, keys) ==
    [k \in 1..Len(xs) |->
        xs[CHOOSE i \in 1..Len(xs) : SortedPos(keys, i) = k]]

(***************************************************************************)
(* MemoryBank.get_preference("morning_categories", ["meeting", "review"])  *)
(* preferences is memory["user_preferences"] restricted to that key.       *)
(***************************************************************************)
DefaultMorningCategories == {"meeting", "review"}

\* faulty variant: tests the stored value, not the stored entry
get_preference_mutant(prefs, default) ==
    IF prefs.stored /\ prefs.value # {} THEN prefs.value ELSE default

get_preference(prefs, default) ==
    IF prefs.stored THEN prefs.value ELSE default

(***************************************************************************)
(* PriorityAgent._score_task and helpers.calculate_priority_score          *)
(***************************************************************************)
urgency(task) ==
    CASE task.priority = "high"   -> 5
      [] task.priority = "medium" -> 3
      [] task.priority = "low"    -> 1
      [] OTHER                    -> 3

importance(task) ==
    CASE task.category = "meeting"  -> 4
      [] task.category = "coding"   -> 3
      [] task.category = "review"   -> 3
      [] task.category = "planning" -> 3
      [] task.category = "learning" -> 2
      [] task.category = "email"    -> 2
      [] task.category = "general"  -> 2
      [] OTHER                      -> 2

effort(task) ==
    LET duration == task.estimated_duration
    IN  IF duration <= 30 THEN 1
        ELSE IF duration <= 60 THEN 2
        ELSE IF duration <= 120 THEN 3
        ELSE IF duration <= 180 THEN 4
        ELSE 5

\* (deadline - datetime.now()).days of a parseable deadline string
days_remaining(dl) == dl - IsoToday

\* faulty variant: a missing or unparseable deadline counts as due today
deadline_days_mutant(task) ==
    IF task.deadline \in {DlNoKey, DlNone, DlEmpty, DlText}
    THEN 0
    ELSE Max(days_remaining(task.deadline), 0)

deadline_days(task) ==
    IF task.deadline \in {DlNoKey, DlNone, DlEmpty}
    THEN NoneDays
    ELSE IF task.deadline = DlText
         THEN NoneDays
         ELSE Max(days_remaining(task.deadline), 0)

\* in hundredths; round(total_score, 2) is exact on every value it can take
calculate_priority_score(u, i, e, dd) ==
    LET base_score == u * 40 + i * 40
        effort_factor == (6 - e) * 10
        deadline_factor ==
            IF dd # NoneDays
            THEN IF dd <= 1 THEN 50
                 ELSE IF dd <= 3 THEN 30
                 ELSE IF dd <= 7 THEN 10
                 ELSE 0
            ELSE 0
    IN  base_score + effort_factor + deadline_factor

_score_task(task) ==
    LET dd == deadline_days(task)
        score == calculate_priority_score(urgency(task), importance(task),
                                          effort(task), dd)
    IN  [name |-> task.name,
         priority |-> task.priority,
         category |-> task.category,
         estimated_duration |-> task.estimated_duration,
         deadline |-> task.deadline,
         priority_score |-> 10 * score,
         scoring_details |-> [urgency |-> urgency(task),
                              importance |-> importance(task),
                              effort |-> effort(task),
                              deadline_days |-> dd],
         rank |-> 0,
         adjusted_for_preferences |-> FALSE]

\* the double x + 0.2 against the double nearest to the decimal sum, for
\* every x = h / 100 the scorer can produce (h in 130..460)
UlpError(h) ==
    IF h \in {210, 220, 260, 270, 310, 320, 360, 370, 440} THEN 1
    ELSE IF h = 140 THEN 0 - 1
    ELSE 0

\* task["priority_score"] += 0.2
AddPreferenceBoost(score) == score + 200 + UlpError(score \div 10)

WithRanks(ts) == [k \in 1..Len(ts) |-> [ts[k] EXCEPT !.rank = k]]

SortByScoreDesc(ts) ==
    StableSort(ts, [k \in 1..Len(ts) |-> 0 - ts[k].priority_score])

\* faulty variant: no second sort after the boost
_apply_user_preferences_mutant(ts, prefs) ==
    LET preferred_categories == get_preference(prefs, DefaultMorningCategories)
        boosted == [k \in 1..Len(ts) |->
                      IF ts[k].category \in preferred_categories
                      THEN [ts[k] EXCEPT
                              !.priority_score = AddPreferenceBoost(@),
                              !.adjusted_for_preferences = TRUE]
                      ELSE ts[k]]
    IN  WithRanks(boosted)

_apply_user_preferences(ts, prefs) ==
    LET preferred_categories == get_preference(prefs, DefaultMorningCategories)
        boosted == [k \in 1..Len(ts) |->
                      IF ts[k].category \in preferred_categories
                      THEN [ts[k] EXCEPT
                              !.priority_score = AddPreferenceBoost(@),
                              !.adjusted_for_preferences = TRUE]
                      ELSE ts[k]]
    IN  WithRanks(SortByScoreDesc(boosted))

prioritize_tasks(ts, prefs) ==
    LET scored_tasks == [k \in 1..Len(ts) |-> _score_task(ts[k])]
        sorted_tasks == WithRanks(SortByScoreDesc(scored_tasks))
    IN  _apply_user_preferences(sorted_tasks, prefs)

(***************************************************************************)
(* PlannerAgent._schedule_tasks and PlannerAgent.create_plan               *)
(***************************************************************************)
priority_rank(task) ==
    CASE task.priority = "high"   -> 1
      [] task.priority = "medium" -> 2
      [] task.priority = "low"    -> 3
      [] OTHER                    -> 2

\* x.get("deadline", ""): a missing key reads as the empty string
deadline_key(task) ==
    IF task.deadline = DlNoKey THEN DlEmpty ELSE task.deadline

\* The key is the tuple (rank, deadline).  Two tuples with the same rank
\* compare their second components, and None < str raises TypeError; any
\* sort of a list that holds such a pair has to compare one.
SortRaisesTypeError(ts) ==
    \E i, j \in 1..Len(ts) :
        /\ priority_rank(ts[i]) = priority_rank(ts[j])
        /\ deadline_key(ts[i]) = DlNone
        /\ deadline_key(ts[j]) # DlNone

SortByPriorityDeadline(ts) ==
    StableSort(ts, [k \in 1..Len(ts) |->
                      priority_rank(ts[k]) * 1000 + deadline_key(ts[k])])

\* now_local.replace(hour=9, minute=0, second=0, microsecond=0)
AnchorMinutes == 540

isoformat(m) == <<m \div 1440, (m % 1440) \div 60, m % 60>>

fromisoformat(s) == s[1] * 1440 + s[2] * 60 + s[3]

BreakName(break_len) ==
    IF break_len = 15 THEN "15-minute break" ELSE "5-minute break"

\* faulty variant: > in place of >=
break_len_mutant(duration) == IF duration > 60 THEN 15 ELSE 5

break_len_of(duration) == IF duration >= 60 THEN 15 ELSE 5

\* faulty variant: every break ends 5 minutes after it starts
break_end_mutant(break_start, break_len) == break_start + 5

\* break_start + timedelta(minutes=break_len)
break_end_of(break_start, break_len) == break_start + break_len

RECURSIVE LayOut(_, _)
LayOut(ts, current) ==
    IF ts = <<>> THEN <<>>
    ELSE LET t == Head(ts)
             duration == t.estimated_duration
             start_time == current
             end_time == start_time + duration
             break_len == break_len_of(duration)
             break_start == end_time
             break_end == break_end_of(break_start, break_len)
         IN  << [type |-> "task",
                 name |-> t.name,
                 category |-> t.category,
                 priority |-> t.priority,
                 start_time |-> isoformat(start_time),
                 end_time |-> isoformat(end_time),
                 duration |-> duration],
                [type |-> "break",
                 name |-> BreakName(break_len),
                 category |-> Absent,
                 priority |-> Absent,
                 start_time |-> isoformat(break_start),
                 end_time |-> isoformat(break_end),
                 duration |-> break_len] >>
             \o LayOut(Tail(ts), break_end)

_schedule_tasks(ts) == LayOut(SortByPriorityDeadline(ts), AnchorMinutes)

TaskItems(schedule) == SelectSeq(schedule, LAMBDA b : b.type = "task")

Durations(blocks) == [k \in 1..Len(blocks) |-> blocks[k].duration]

\* faulty variant: total_work sums the breaks too
create_plan_mutant(ts) ==
    LET schedule == _schedule_tasks(ts)
        task_items == TaskItems(schedule)
        total_work == SumSeq(Durations(schedule))
    IN  [scheduled_tasks |-> schedule,
         task_count |-> Len(task_items),
         total_work_minutes |-> total_work,
         includes_breaks |-> Absent]

create_plan(ts) ==
    LET schedule == _schedule_tasks(ts)
        task_items == TaskItems(schedule)
        total_work == SumSeq(Durations(task_items))
    IN  [scheduled_tasks |-> schedule,
         task_count |-> Len(task_items),
         total_work_minutes |-> total_work,
         includes_breaks |-> Absent]

(***************************************************************************)
(* PlanEvaluator                                                           *)
(***************************************************************************)
\* sum(t.get("duration", 0) for t in scheduled_tasks): every block counts
total_duration(scheduled_tasks) == SumSeq(Durations(scheduled_tasks))

_score_time_efficiency(p) ==
    LET scheduled_tasks == p.scheduled_tasks
        total == total_duration(scheduled_tasks)
        s1 == IF total < 360 THEN 25 - 5
              ELSE IF total > 480 THEN 25 - 5
              ELSE 25
        s2 == IF Len(scheduled_tasks) < 3 THEN s1 - 3 ELSE s1
    IN  IF scheduled_tasks = <<>> THEN 0 ELSE Max(0, s2)

\* task.get("priority", "medium")
BlockPriority(b) == IF b.priority = Absent THEN "medium" ELSE b.priority

\* faulty variant: idx > 3 in place of idx > 2
AlignmentPenalty_mutant(b, idx) ==
    IF BlockPriority(b) = "high" /\ idx > 3 THEN 3
    ELSE IF BlockPriority(b) = "low" /\ idx = 0 THEN 2
    ELSE 0

AlignmentPenalty(b, idx) ==
    IF BlockPriority(b) = "high" /\ idx > 2 THEN 3
    ELSE IF BlockPriority(b) = "low" /\ idx = 0 THEN 2
    ELSE 0

_score_priority_alignment(p) ==
    LET scheduled_tasks == p.scheduled_tasks
        \* enumerate() counts from 0
        penalties == [k \in 1..Len(scheduled_tasks) |->
                        AlignmentPenalty(scheduled_tasks[k], k - 1)]
    IN  Max(0, 25 - SumSeq(penalties))

\* faulty variant: the 480 test is a second if, not an elif
_score_feasibility_mutant(p) ==
    LET scheduled_tasks == p.scheduled_tasks
        total == total_duration(scheduled_tasks)
        s1 == IF total > 540 THEN 25 - 10 ELSE 25
        s2 == IF total > 480 THEN s1 - 5 ELSE s1
        long == [k \in 1..Len(scheduled_tasks) |->
                   IF scheduled_tasks[k].duration > 180 THEN 2 ELSE 0]
    IN  Max(0, s2 - SumSeq(long))

_score_feasibility(p) ==
    LET scheduled_tasks == p.scheduled_tasks
        total == total_duration(scheduled_tasks)
        s1 == IF total > 540 THEN 25 - 10
              ELSE IF total > 480 THEN 25 - 5
              ELSE 25
        long == [k \in 1..Len(scheduled_tasks) |->
                   IF scheduled_tasks[k].duration > 180 THEN 2 ELSE 0]
    IN  Max(0, s1 - SumSeq(long))

_score_work_life_balance(p, prefs) ==
    LET has_breaks == IF p.includes_breaks = Absent
                      THEN FALSE
                      ELSE p.includes_breaks = "True"
        total == total_duration(p.scheduled_tasks)
        preferred_hours == IF prefs = NoPref THEN 8 ELSE prefs
        s1 == IF ~has_breaks THEN 25 - 5 ELSE 25
        s2 == IF total > 600 THEN s1 - 10 ELSE s1
        s3 == IF total > preferred_hours * 60 THEN s2 - 5 ELSE s2
    IN  Max(0, s3)

Criteria ==
    <<"time_efficiency", "priority_alignment", "feasibility",
      "work_life_balance">>

_generate_feedback(scores) ==
    LET low == SelectSeq(Criteria, LAMBDA c : scores[c] < 15)
    IN  IF low = <<>> THEN <<"excellent">> ELSE low

\* faulty variant: the feedback threshold 15 reused
_generate_recommendations_mutant(scores) ==
    SelectSeq(Criteria, LAMBDA c : scores[c] < 15)

_generate_recommendations(scores) ==
    SelectSeq(Criteria, LAMBDA c : scores[c] < 20)

\* faulty variant: > 90 in place of >= 90
_calculate_grade_mutant(total_score) ==
    IF total_score > 90 THEN "A"
    ELSE IF total_score >= 80 THEN "B"
    ELSE IF total_score >= 70 THEN "C"
    ELSE IF total_score >= 60 THEN "D"
    ELSE "F"

_calculate_grade(total_score) ==
    IF total_score >= 90 THEN "A"
    ELSE IF total_score >= 80 THEN "B"
    ELSE IF total_score >= 70 THEN "C"
    ELSE IF total_score >= 60 THEN "D"
    ELSE "F"

evaluate_plan(p, prefs) ==
    LET scores ==
            [time_efficiency |-> _score_time_efficiency(p),
             priority_alignment |-> _score_priority_alignment(p),
             feasibility |-> _score_feasibility(p),
             work_life_balance |-> _score_work_life_balance(p, prefs)]
        total_score == scores.time_efficiency + scores.priority_alignment
                       + scores.feasibility + scores.work_life_balance
    IN  [total_score |-> total_score,
         max_score |-> 100,
         grade |-> _calculate_grade(total_score),
         scores_breakdown |-> scores,
         feedback |-> _generate_feedback(scores),
         recommendations |-> _generate_recommendations(scores)]

(***************************************************************************)
(* MemoryBank: the memory dict of an instance and the JSON file behind it. *)
(*  - A dict with optional keys is a function from the keys of the model   *)
(*    to a sequence: <<>> when the key is missing, <<entry>> when present.  *)
(*  - A preference value is a Python value [py, items]; json.dump writes a *)
(*    list and a tuple as the same JSON array, json.load reads an array as *)
(*    a list.                                                               *)
(*  - memory[i] is <<>> before instance i is constructed and <<dict>>      *)
(*    after; disk is <<>> while the file does not exist and <<document>>   *)
(*    after the first save.                                                 *)
(*  - future_key is a top-level key of the file that the store does not    *)
(*    know, <<>> when missing and <<value>> when present.                   *)
(*  - clock is the wall clock in minutes; datetime.now().isoformat() is    *)
(*    isoformat(clock).                                                     *)
(***************************************************************************)
Instances == {1, 2}

PrefKeys == {"morning_categories", "max_work_hours"}

PatternNames == {"best_work_hours", "task_overestimation"}

\* len(self.memory["task_history"]) > 1000, task_history[-1000:]
HistoryLimit == 1000

\* None where a number of minutes is expected
NoneMinutes == -1

\* pattern_data without a "confidence" key
NoConfidence == -1

PyList(items) == [py |-> "list", items |-> items]

PyTuple(items) == [py |-> "tuple", items |-> items]

PyInt(digits) == [py |-> "int", items |-> <<digits>>]

\* json.dump of a preference value
json_dump_value(v) ==
    [js |-> IF v.py \in {"list", "tuple"} THEN "array"
            ELSE IF v.py = "int" THEN "number"
            ELSE "string",
     items |-> v.items]

\* json.load of a preference value
json_load_value(j) ==
    [py |-> IF j.js = "array" THEN "list"
            ELSE IF j.js = "number" THEN "int"
            ELSE "str",
     items |-> j.items]

\* json.dump(self.memory, f): task records, patterns and metadata hold only
\* strings, integers, booleans and None, which JSON keeps as they are
json_dump(mem) ==
    [user_preferences |->
        [key \in PrefKeys |->
            [e \in 1..Len(mem.user_preferences[key]) |->
                [value |-> json_dump_value(mem.user_preferences[key][e].value),
                 updated_at |-> mem.user_preferences[key][e].updated_at]]],
     task_history |-> mem.task_history,
     learned_patterns |-> mem.learned_patterns,
     metadata |-> mem.metadata,
     future_key |-> mem.future_key]

json_load(doc) ==
    [user_preferences |->
        [key \in PrefKeys |->
            [e \in 1..Len(doc.user_preferences[key]) |->
                [value |-> json_load_value(doc.user_preferences[key][e].value),
                 updated_at |-> doc.user_preferences[key][e].updated_at]]],
     task_history |-> doc.task_history,
     learned_patterns |-> doc.learned_patterns,
     metadata |-> doc.metadata,
     future_key |-> doc.future_key]

\* the dict built by __init__ and by clear()
DefaultMemory(now) ==
    [user_preferences |-> [key \in PrefKeys |-> <<>>],
     task_history |-> <<>>,
     learned_patterns |-> [name \in PatternNames |-> <<>>],
     metadata |-> [created_at |-> isoformat(now),
                   last_updated |-> isoformat(now),
                   version |-> "1.0"],
     future_key |-> <<>>]

\* faulty variant: load() keeps only the four keys the store knows
load_mutant(mem, file) ==
    IF file = <<>> THEN mem
    ELSE LET loaded_memory == json_load(file[1])
         IN  [user_preferences |-> loaded_memory.user_preferences,
              task_history |-> loaded_memory.task_history,
              learned_patterns |-> loaded_memory.learned_patterns,
              metadata |-> loaded_memory.metadata,
              future_key |-> <<>>]

\* load(): self.memory.update(json.load(f)) when the file exists; a file
\* written by save() holds all four top-level keys, and update() sets
\* every key of the file, known or not, and keeps the others
load(mem, file) ==
    IF file = <<>> THEN mem
    ELSE LET loaded_memory == json_load(file[1])
         IN  [user_preferences |-> loaded_memory.user_preferences,
              task_history |-> loaded_memory.task_history,
              learned_patterns |-> loaded_memory.learned_patterns,
              metadata |-> loaded_memory.metadata,
              future_key |-> IF loaded_memory.future_key # <<>>
                             THEN loaded_memory.future_key
                             ELSE mem.future_key]

\* save(): the file is rewritten with the whole dict
save(mem) == <<json_dump(mem)>>

_update_metadata(mem, now) ==
    [mem EXCEPT !.metadata.last_updated = isoformat(now)]

store_preference(mem, key, value, now) ==
    _update_metadata(
        [mem EXCEPT !.user_preferences[key] =
                       <<[value |-> value, updated_at |-> isoformat(now)]>>],
        now)

\* faulty variant: keeps the oldest records, task_history[:1000]
keep_last_mutant(history) ==
    IF Len(history) > HistoryLimit
    THEN SubSeq(history, 1, HistoryLimit)
    ELSE history

\* if len(history) > 1000: history = history[-1000:]
keep_last(history) ==
    IF Len(history) > HistoryLimit
    THEN SubSeq(history, Len(history) - HistoryLimit + 1, Len(history))
    ELSE history

\* actual is the argument actual_duration_minutes
store_task_completion(mem, task, completion_time, actual, now) ==
    LET task_record ==
            [task_id |-> task.id,
             task_name |-> task.name,
             category |-> task.category,
             estimated_duration |-> task.estimated_duration,
             actual_duration |-> actual,
             completed_at |-> isoformat(completion_time),
             priority |-> task.priority,
             success |-> TRUE]
    IN  _update_metadata(
            [mem EXCEPT !.task_history = keep_last(Append(@, task_record))],
            now)

learn_pattern(mem, pattern_name, pattern_data, now) ==
    _update_metadata(
        [mem EXCEPT !.learned_patterns[pattern_name] =
            <<[data |-> pattern_data,
               learned_at |-> isoformat(now),
               confidence |-> IF pattern_data.confidence = NoConfidence
                              THEN 100
                              ELSE pattern_data.confidence]>>],
        now)

clear(now) == DefaultMemory(now)

(***************************************************************************)
(* HabitAnalyzerTool and ReflectionAgent.                                  *)
(*  - A task of the completed or planned list is a record id/priority/     *)
(*    actual_duration/duration; a missing key is Absent (id, priority) or  *)
(*    NoMinutesKey (durations), a None duration is NoneMinutes.             *)
(*  - A float quotient is kept exact as the fraction [n, d]; d = 0 stands  *)
(*    for None.  round(x, k) is the nearest multiple of 10^-k, halves to   *)
(*    the even neighbour, which is what Python gives on the quotients of   *)
(*    the model.                                                            *)
(*  - A result that the code builds with fewer keys (the "Insufficient"    *)
(*    messages) keeps every field, the missing ones empty.                 *)
(*  - Each step returns a record whose error field names the exception it  *)
(*    raised, "" when it returned.                                          *)
(***************************************************************************)
NoMinutesKey == -2

Min(a, b) == IF a <= b THEN a ELSE b

Frac(n, d) == [n |-> n, d |-> d]

\* round(n / d * 10^k) for the scaled numerator n, d > 0
RoundHalfEven(n, d) ==
    LET q == n \div d
        r == n % d
    IN  IF 2 * r > d THEN q + 1
        ELSE IF 2 * r = d THEN q + (q % 2)
        ELSE q

\* the distinct entries of xs, in the order of their first appearance: the
\* key order of a dict filled while iterating xs
DistinctInOrder(xs) ==
    LET first == {k \in 1..Len(xs) : \A j \in 1..(k - 1) : xs[j] # xs[k]}
    IN  [n \in 1..Cardinality(first) |->
            xs[CHOOSE k \in first : Cardinality({j \in first : j <= k}) = n]]

\* xs[:n]
Prefix(xs, n) == SubSeq(xs, 1, Min(n, Len(xs)))

\* dt.hour of datetime.fromisoformat(completed_at)
HourOf(completed_at) == (fromisoformat(completed_at) % 1440) \div 60

\* analyze_productivity_hours: the three hours of highest
\* round(tasks * 10 + total_duration / tasks, 2).  A record whose
\* actual_duration is None is counted as a task, the += None that follows
\* raises inside the try block and its duration is skipped.
analyze_productivity_hours(task_history) ==
    LET hours == DistinctInOrder([k \in 1..Len(task_history) |->
                                    HourOf(task_history[k].completed_at)])
        At(h) == {k \in 1..Len(task_history) :
                    HourOf(task_history[k].completed_at) = h}
        count_at(h) == Cardinality(At(h))
        minutes == [k \in 1..Len(task_history) |->
                      IF task_history[k].actual_duration = NoneMinutes
                      THEN 0 ELSE task_history[k].actual_duration]
        minutes_at(h) ==
            SumSeq([k \in 1..Len(task_history) |->
                      IF k \in At(h) THEN minutes[k] ELSE 0])
        productivity_score(h) ==
            RoundHalfEven(100 * (count_at(h) * count_at(h) * 10 + minutes_at(h)),
                          count_at(h))
        sorted_hours ==
            StableSort(hours, [k \in 1..Len(hours) |->
                                 0 - productivity_score(hours[k])])
    IN  [peak_productivity_hours |-> Prefix(sorted_hours, 3)]

\* if estimated and actual
Truthy(minutes) == minutes # NoneMinutes /\ minutes # 0

RECURSIVE FracSum(_)
FracSum(fs) ==
    IF fs = <<>> THEN Frac(0, 1)
    ELSE LET rest == FracSum(Tail(fs))
         IN  Frac(Head(fs).n * rest.d + rest.n * Head(fs).d,
                  Head(fs).d * rest.d)

\* analyze_task_duration_accuracy: avg_ratio > 1.2, < 0.8, or neither
analyze_task_duration_accuracy(task_history) ==
    LET compared == SelectSeq(task_history,
                       LAMBDA t : Truthy(t.estimated_duration)
                                  /\ Truthy(t.actual_duration))
        ratios == [k \in 1..Len(compared) |->
                     IF compared[k].estimated_duration > 0
                     THEN Frac(compared[k].actual_duration,
                               compared[k].estimated_duration)
                     ELSE Frac(1, 1)]
        total == FracSum(ratios)
        count == Len(compared)
    IN  IF count = 0 THEN [tendency |-> Absent, comparisons_count |-> 0]
        ELSE [tendency |->
                 IF 5 * total.n > 6 * count * total.d THEN "underestimates"
                 ELSE IF 5 * total.n < 4 * count * total.d
                      THEN "overestimates"
                 ELSE "accurate",
              comparisons_count |-> count]

\* identify_task_patterns: the five categories of highest count; the sum of
\* actual_duration is outside any try block, so a None there raises
identify_task_patterns(task_history) ==
    LET categories == DistinctInOrder([k \in 1..Len(task_history) |->
                                         task_history[k].category])
        In(c) == {k \in 1..Len(task_history) : task_history[k].category = c}
        total_time(c) ==
            SumSeq([k \in 1..Len(task_history) |->
                      IF k \in In(c) THEN task_history[k].actual_duration
                      ELSE 0])
        sorted_categories ==
            StableSort(categories, [k \in 1..Len(categories) |->
                                      0 - Cardinality(In(categories[k]))])
        top == Prefix(sorted_categories, 5)
    IN  IF \E k \in 1..Len(task_history) :
              task_history[k].actual_duration = NoneMinutes
        THEN [error |-> "TypeError", top_categories |-> <<>>,
              total_categories |-> 0]
        ELSE [error |-> "",
              top_categories |->
                 [k \in 1..Len(top) |->
                    [category |-> top[k],
                     count |-> Cardinality(In(top[k])),
                     \* round(total_time / count, 1), in tenths
                     avg_duration |->
                        RoundHalfEven(10 * total_time(top[k]),
                                      Cardinality(In(top[k])))]],
              total_categories |-> Len(categories)]

\* the completion rate as a float: completed / planned * 100
CompletionRate(completed_count, planned_count) ==
    Frac(100 * completed_count, planned_count)

_get_completion_status(rate) ==
    IF rate.n >= 90 * rate.d THEN "excellent"
    ELSE IF rate.n >= 70 * rate.d THEN "good"
    ELSE IF rate.n >= 50 * rate.d THEN "fair"
    ELSE "needs_improvement"

\* faulty variant: no test of planned_count == 0 before the division
_analyze_completion_mutant(completed, planned) ==
    LET planned_count == Len(planned)
        completed_count == Len(completed)
        completion_rate == CompletionRate(completed_count,
                                          Max(1, planned_count))
    IN  [error |-> IF planned_count = 0 THEN "ZeroDivisionError" ELSE "",
         planned_tasks |-> planned_count,
         completed_tasks |-> completed_count,
         incomplete_tasks |-> planned_count - completed_count,
         completion_rate |-> RoundHalfEven(10 * completion_rate.n,
                                           completion_rate.d),
         status |-> _get_completion_status(completion_rate)]

\* completion_rate is round(rate, 1), kept in tenths of a percent
_analyze_completion(completed, planned) ==
    LET planned_count == Len(planned)
        completed_count == Len(completed)
        completion_rate == IF planned_count = 0 THEN Frac(0, 1)
                           ELSE CompletionRate(completed_count, planned_count)
    IN  [error |-> "",
         planned_tasks |-> planned_count,
         completed_tasks |-> completed_count,
         incomplete_tasks |-> planned_count - completed_count,
         completion_rate |-> RoundHalfEven(10 * completion_rate.n,
                                           completion_rate.d),
         status |-> _get_completion_status(completion_rate)]

InsufficientHistory ==
    [error |-> "", message |-> "Insufficient history for pattern analysis",
     productivity_hours |-> <<>>, estimation_tendency |-> Absent,
     top_categories |-> <<>>, pattern_count |-> 0]

_analyze_patterns(history) ==
    IF history = <<>> THEN InsufficientHistory
    ELSE LET productivity == analyze_productivity_hours(history)
             duration_accuracy == analyze_task_duration_accuracy(history)
             patterns == identify_task_patterns(history)
         IN  IF patterns.error # ""
             THEN [InsufficientHistory EXCEPT !.error = patterns.error,
                                              !.message = ""]
             ELSE [error |-> "", message |-> "",
                   productivity_hours |->
                       productivity.peak_productivity_hours,
                   estimation_tendency |->
                       IF duration_accuracy.tendency = Absent THEN "unknown"
                       ELSE duration_accuracy.tendency,
                   top_categories |-> patterns.top_categories,
                   pattern_count |-> Len(history)]

\* t.get("actual_duration", t.get("duration", 0))
SessionMinutes(t) ==
    IF t.actual_duration # NoMinutesKey THEN t.actual_duration
    ELSE IF t.duration # NoMinutesKey THEN t.duration
    ELSE 0

\* isinstance(t, dict): a character of a string is the record [char |-> c]
IsDict(t) == "char" \notin DOMAIN t

\* valid_completed keeps the dicts; sum() raises on a None duration
_learn_from_session(completed, history) ==
    LET valid_completed == SelectSeq(completed, IsDict)
        minutes == [k \in 1..Len(valid_completed) |->
                      SessionMinutes(valid_completed[k])]
    IN  IF valid_completed = <<>>
        THEN [error |-> "", average_duration |-> Frac(0, 0),
              task_count |-> 0,
              insight |-> "No completed tasks to learn from yet."]
        ELSE IF \E k \in 1..Len(minutes) : minutes[k] = NoneMinutes
        THEN [error |-> "TypeError", average_duration |-> Frac(0, 0),
              task_count |-> 0, insight |-> ""]
        ELSE [error |-> "",
              average_duration |-> Frac(SumSeq(minutes), Len(valid_completed)),
              task_count |-> Len(valid_completed),
              insight |-> "Learned from completed tasks successfully."]

\* a clause of the reason string and the number it prints
Clause(name, number) == [clause |-> name, number |-> number]

\* [c.get("id") for c in completed]
CompletedIds(completed) == {completed[k].id : k \in 1..Len(completed)}

\* faulty variant: a planned task without an id is never counted
IncompleteHighPriority_mutant(completed, planned) ==
    SelectSeq(planned,
              LAMBDA t : /\ t.priority = "high"
                         /\ t.id # Absent
                         /\ t.id \notin CompletedIds(completed))

\* t.get("id") is None for a task without an id, and None is in the list of
\* completed ids only when a completed task has no id either
IncompleteHighPriority(completed, planned) ==
    SelectSeq(planned,
              LAMBDA t : /\ t.priority = "high"
                         /\ t.id \notin CompletedIds(completed))

\* faulty variant: <= 50 in place of < 50
LowCompletion_mutant(completion_rate) ==
    completion_rate.n <= 50 * completion_rate.d

\* completion_rate < 50
LowCompletion(completion_rate) == completion_rate.n < 50 * completion_rate.d

\* the reason is the list of the clauses joined by " "
_should_replan(completed, planned) ==
    LET planned_count == Len(planned)
        completed_count == Len(completed)
        completion_rate == CompletionRate(completed_count, planned_count)
        rounded == RoundHalfEven(10 * completion_rate.n, completion_rate.d)
        incomplete_high_priority == IncompleteHighPriority(completed, planned)
        reasons ==
            (IF LowCompletion(completion_rate)
             THEN <<Clause("Low completion rate", rounded)>> ELSE <<>>)
            \o (IF Len(incomplete_high_priority) >= 2
                THEN <<Clause("high-priority tasks incomplete",
                              Len(incomplete_high_priority))>>
                ELSE <<>>)
    IN  IF planned_count = 0
        THEN [needed |-> FALSE,
              reason |-> <<Clause("No planned tasks to review", 0)>>]
        ELSE [needed |-> reasons # <<>>,
              reason |-> IF reasons # <<>> THEN reasons
                         ELSE <<Clause("On track, no re-planning needed",
                                       0)>>,
              incomplete_tasks |-> planned_count - completed_count,
              completion_rate |-> rounded]

\* insights.get("patterns_learned", []): the patterns handed to
\* MemoryBank.learn_pattern
_update_memory(insights) ==
    IF "patterns_learned" \in DOMAIN insights
    THEN insights.patterns_learned
    ELSE <<>>

\* a recommendation and the hour it prints (0 when it prints none)
Advice(text, hour) == [text |-> text, hour |-> hour]

ReflectionAgent_generate_recommendations(completion, patterns, learnings) ==
    LET status == completion.status
        tendency == patterns.estimation_tendency
    IN  (IF status = "needs_improvement"
         THEN <<Advice("Consider reducing daily workload", 0)>>
         ELSE IF status = "excellent"
         THEN <<Advice("You can handle slightly more tasks", 0)>>
         ELSE <<>>)
        \o (IF patterns.productivity_hours # <<>>
            THEN <<Advice("Schedule critical tasks around",
                          patterns.productivity_hours[1])>>
            ELSE <<>>)
        \o (IF tendency = "underestimates"
            THEN <<Advice("Add 20-30% buffer", 0)>>
            ELSE IF tendency = "overestimates"
            THEN <<Advice("You can reduce time estimates", 0)>>
            ELSE <<>>)

NoReflection ==
    [error |-> "",
     completion_analysis |-> _analyze_completion(<<>>, <<>>),
     pattern_insights |-> InsufficientHistory,
     learning_insights |-> _learn_from_session(<<>>, <<>>),
     replan_needed |-> FALSE,
     replan_reason |-> <<>>,
     recommendations |-> <<>>]

\* faulty variant: the estimation tendency of the history is a third reason
reflect_and_learn_mutant(completed, planned, mem) ==
    LET task_history == mem.task_history
        completion_analysis == _analyze_completion(completed, planned)
        pattern_insights == _analyze_patterns(task_history)
        learning_insights == _learn_from_session(completed, task_history)
        replan_decision == _should_replan(completed, planned)
        overruns == pattern_insights.estimation_tendency = "underestimates"
        error == IF completion_analysis.error # ""
                 THEN completion_analysis.error
                 ELSE IF pattern_insights.error # ""
                 THEN pattern_insights.error
                 ELSE learning_insights.error
    IN  IF error # "" THEN [NoReflection EXCEPT !.error = error]
        ELSE [error |-> "",
              completion_analysis |-> completion_analysis,
              pattern_insights |-> pattern_insights,
              learning_insights |-> learning_insights,
              replan_needed |-> replan_decision.needed \/ overruns,
              replan_reason |->
                  IF overruns
                  THEN <<Clause("Major overruns", 0)>>
                  ELSE replan_decision.reason,
              recommendations |->
                  ReflectionAgent_generate_recommendations(
                      completion_analysis, pattern_insights,
                      learning_insights)]

\* reflect_and_learn with completed_tasks or [] and planned_tasks or []
\* already applied; the steps run in the order of the code and the first
\* exception leaves the call
reflect_and_learn(completed, planned, mem) ==
    LET task_history == mem.task_history
        completion_analysis == _analyze_completion(completed, planned)
        pattern_insights == _analyze_patterns(task_history)
        learning_insights == _learn_from_session(completed, task_history)
        replan_decision == _should_replan(completed, planned)
        error == IF completion_analysis.error # ""
                 THEN completion_analysis.error
                 ELSE IF pattern_insights.error # ""
                 THEN pattern_insights.error
                 ELSE learning_insights.error
    IN  IF error # "" THEN [NoReflection EXCEPT !.error = error]
        ELSE [error |-> "",
              completion_analysis |-> completion_analysis,
              pattern_insights |-> pattern_insights,
              learning_insights |-> learning_insights,
              replan_needed |-> replan_decision.needed,
              replan_reason |-> replan_decision.reason,
              recommendations |->
                  ReflectionAgent_generate_recommendations(
                      completion_analysis, pattern_insights,
                      learning_insights)]

(***************************************************************************)
(* InMemorySessionService.                                                 *)
(*  - sessions[id] is <<>> while the map has no session id and <<session>> *)
(*    after; a session is its last_accessed time, in seconds, and its      *)
(*    context_data, where a missing key is <<>> and a present one <<v>>.   *)
(*  - outcome is the call that returned last: its number, the session it   *)
(*    found under the id (none, expired, live) and what it returned.       *)
(***************************************************************************)
SessionIds == {"s1", "s2"}

ContextKeys ==
    {"collected_tasks", "prioritized_tasks", "formatted_schedule",
     "planned_schedule", "user_preferences"}

\* Config.SESSION_TIMEOUT, seconds
SESSION_TIMEOUT == 3600

NoOutcome == [n |-> 0, op |-> "", id |-> "", found |-> "", returned |-> ""]

\* SessionContext(session_id, created_at = now, last_accessed = now)
NewSession(now) ==
    [last_accessed |-> now,
     context_data |-> [key \in ContextKeys |-> <<>>]]

\* faulty variant: >= in place of >
_is_expired_mutant(session, now) ==
    now - session.last_accessed >= SESSION_TIMEOUT

\* (datetime.now() - session.last_accessed) > timedelta(seconds=timeout)
_is_expired(session, now) ==
    now - session.last_accessed > SESSION_TIMEOUT

create_session(ss, id, now) == [ss EXCEPT ![id] = <<NewSession(now)>>]

delete_session(ss, id) == [ss EXCEPT ![id] = <<>>]

\* get_session: the map it leaves and what it returns, "None" or "session"
get_session(ss, id, now) ==
    IF ss[id] = <<>>
    THEN [sessions |-> ss, returned |-> "None"]
    ELSE IF _is_expired(ss[id][1], now)
    THEN [sessions |-> delete_session(ss, id), returned |-> "None"]
    ELSE [sessions |-> [ss EXCEPT ![id][1].last_accessed = now],
          returned |-> "session"]

\* update_context: context_data[key] = value on the session get_session
\* returned
update_context(ss, id, key, value, now) ==
    LET got == get_session(ss, id, now)
    IN  IF got.returned = "None"
        THEN [sessions |-> got.sessions, returned |-> "False"]
        ELSE [sessions |->
                 [got.sessions EXCEPT ![id][1].context_data[key] = <<value>>],
              returned |-> "True"]

\* get_context: context_data.get(key) of the session get_session returned
get_context(ss, id, key, now) ==
    LET got == get_session(ss, id, now)
    IN  IF got.returned = "None"
        THEN [sessions |-> got.sessions, returned |-> "None"]
        ELSE [sessions |-> got.sessions,
              returned |->
                  IF got.sessions[id][1].context_data[key] = <<>>
                  THEN "None"
                  ELSE got.sessions[id][1].context_data[key][1]]

(***************************************************************************)
(* CollectorAgent, ReminderAgent and the calls of AgentOrchestrator.       *)
(*  - raw_tasks is the list json.loads reads from the raw input; a key a   *)
(*    task does not carry is Absent (name, priority, category),            *)
(*    NoMinutesKey (the three durations) or DlNoKey (the two deadlines).   *)
(*  - Of the keys _normalize writes, the model keeps the five the later    *)
(*    stages read.                                                         *)
(*  - A session id is a string; where the code takes its len() or iterates *)
(*    over it, it is the sequence of its characters.                       *)
(*  - bundle is <<>> until process_tasks returns and <<result>> after.     *)
(***************************************************************************)
\* a or b or c or 60
FirstTruthy(a, b, c) ==
    IF a # NoMinutesKey /\ Truthy(a) THEN a
    ELSE IF b # NoMinutesKey /\ Truthy(b) THEN b
    ELSE IF c # NoMinutesKey /\ Truthy(c) THEN c
    ELSE 60

\* task.get("deadline") or task.get("due_date")
FirstDeadline(deadline, due_date) ==
    IF deadline \notin {DlNoKey, DlNone, DlEmpty} THEN deadline
    ELSE IF due_date = DlNoKey THEN DlNone
    ELSE due_date

_normalize(task) ==
    [name |-> IF task.name = Absent THEN "Unnamed Task" ELSE task.name,
     priority |-> IF task.priority = Absent THEN "medium" ELSE task.priority,
     category |-> IF task.category = Absent THEN "general" ELSE task.category,
     estimated_duration |-> FirstTruthy(task.estimated_duration,
                                        task.estimated_time, task.duration),
     deadline |-> FirstDeadline(task.deadline, task.due_date)]

\* collect_tasks on a JSON list: {"tasks": tasks, "task_count": len(tasks)}
collect_tasks(raw) == [k \in 1..Len(raw) |-> _normalize(raw[k])]

ReminderMinutesBefore(task) ==
    IF task.category = "meeting" THEN 15
    ELSE IF task.priority = "high" THEN 5
    ELSE 0

\* _generate_reminders: one reminder for each block of type task
_generate_reminders(scheduled_tasks) ==
    LET task_blocks == SelectSeq(scheduled_tasks, LAMBDA b : b.type = "task")
    IN  [k \in 1..Len(task_blocks) |->
            LET task == task_blocks[k]
                start_time == fromisoformat(task.start_time)
                before == ReminderMinutesBefore(task)
            IN  [task_name |-> task.name,
                 reminder_time |-> isoformat(start_time - before),
                 task_start_time |-> isoformat(start_time),
                 minutes_before |-> before,
                 priority |-> task.priority]]

\* create_reminders; MCPTool.write_file catches every exception of the
\* three writes
create_reminders(plan_data) ==
    LET made == _generate_reminders(plan_data.scheduled_tasks)
    IN  [reminders |-> made, reminder_count |-> Len(made)]

NoReminders == [reminders |-> <<>>, reminder_count |-> 0]

NoBundle == <<>>

\* the characters of a session id
CharsOf(id) ==
    IF id = "s1" THEN <<[char |-> "s"], [char |-> "1"]>>
    ELSE <<[char |-> "s"], [char |-> "2"]>>

\* A2AMessage(from, to, message_type, data, session_id)
A2AMessage(from_agent, to_agent, message_type, data) ==
    [from |-> from_agent, to |-> to_agent, type |-> message_type,
     data |-> data]

\* await handler(data, session_id) with handler = reflect_and_learn(
\* session_id, completed_tasks=None, planned_tasks=None): the two
\* positional arguments bind data to session_id and the session id to
\* completed_tasks; planned_tasks stays None and reads as []
handler_reflect_and_learn(data, id, mem) ==
    reflect_and_learn(CharsOf(id), <<>>, mem)

(***************************************************************************)
(* Inputs.                                                                 *)
(***************************************************************************)
TaskNames == <<"t1", "t2", "t3", "t4", "t5", "t6", "t7", "t8">>

Kind(p, c, d, dl) ==
    [priority |-> p, category |-> c, estimated_duration |-> d,
     deadline |-> dl]

\* a task list: the kinds ks, named by position
Named(ks) ==
    [k \in 1..Len(ks) |->
        [name |-> TaskNames[k],
         priority |-> ks[k].priority,
         category |-> ks[k].category,
         estimated_duration |-> ks[k].estimated_duration,
         deadline |-> ks[k].deadline]]

\* the tasks of a pipeline run
PipelineKinds ==
    { Kind("high", "meeting", 30, DlNone),
      Kind("medium", "writing", 90, DlNone),
      Kind("medium", "review", 60, DlNone),
      Kind("high", "general", 180, DlNone),
      Kind("low", "coding", 200, 3),
      Kind("high", "coding", 120, 4) }

\* one task, every scoring case
Priorities == {"high", "medium", "low", "urgent"}

Categories ==
    {"meeting", "coding", "review", "planning", "learning", "email",
     "general", "writing"}

DurationCases == {30, 31, 60, 61, 120, 121, 180, 181}

DeadlineCases == {DlNoKey, DlNone, DlEmpty, DlText} \cup (1..MaxIso)

ScoringKinds ==
    { Kind(p, c, d, dl) : p \in Priorities, c \in Categories,
                          d \in DurationCases, dl \in DeadlineCases }

\* the lists handed to the scheduler
SchedKinds ==
    { Kind(p, "general", 60, dl) :
        p \in {"high", "medium", "low"}, dl \in {DlNoKey, DlNone, 3, 4} }

\* stored values of the morning_categories preference
MorningChoices == { {}, {"coding", "general"} }

\* a task of the lists handed to the reflection agent
SessionTask(id, priority, actual_duration, duration) ==
    [id |-> id, priority |-> priority, actual_duration |-> actual_duration,
     duration |-> duration]

CompletedKinds ==
    { SessionTask("a", "high", 30, NoMinutesKey),
      SessionTask(Absent, "high", NoMinutesKey, 60),
      SessionTask("b", "medium", NoneMinutes, 60) }

PlannedKinds ==
    { SessionTask("a", "high", NoMinutesKey, 60),
      SessionTask(Absent, "high", NoMinutesKey, 60),
      SessionTask("a", "medium", NoMinutesKey, 60) }

\* a task handed to store_task_completion
HistoryTask(id, category) ==
    [id |-> id, name |-> "task", category |-> category,
     estimated_duration |-> 60, priority |-> "high"]

\* records of the task history: an overrun at 9:00, an early finish at
\* 14:00, and a completion stored without its actual duration
HistoryKinds ==
    { store_task_completion(DefaultMemory(0), HistoryTask(1, "coding"),
                            540, 90, 0).task_history[1],
      store_task_completion(DefaultMemory(0), HistoryTask(2, "meeting"),
                            840, 30, 0).task_history[1],
      store_task_completion(DefaultMemory(0), HistoryTask(3, "coding"),
                            545, NoneMinutes, 0).task_history[1] }

Histories == SeqsUpTo(HistoryKinds, MaxHistory)

\* the process-wide bank holding the history h, saved
BankWith(h) == [DefaultMemory(0) EXCEPT !.task_history = h]

\* the history a bank starts from: n completions, stored at the minutes
\* 1..n and numbered by them
OldRecords(n) ==
    [k \in 1..n |->
        store_task_completion(DefaultMemory(0), HistoryTask(k, "coding"),
                              k, 60, k).task_history[1]]

HistoryStarts == {0, HistoryLimit - 2, HistoryLimit - 1, HistoryLimit}

\* arguments of store_preference and of learn_pattern
PreferenceInputs ==
    { <<"morning_categories", PyList(<<"coding", "general">>)>>,
      <<"morning_categories", PyTuple(<<"coding">>)>>,
      <<"max_work_hours", PyInt("6")>> }

PatternInputs ==
    { <<"best_work_hours",
        [pattern |-> "best_work_hours", confidence |-> NoConfidence]>>,
      <<"task_overestimation",
        [pattern |-> "task_overestimation", confidence |-> 80]>> }

\* the file a session finds: none, one saved by an earlier session, or one
\* saved by a later version of the store that writes one more key
InitialFiles ==
    { <<>>,
      save(store_task_completion(
               store_preference(DefaultMemory(0), "max_work_hours",
                                PyInt("8"), 0),
               HistoryTask(0, "meeting"), 0, 30, 0)),
      save([DefaultMemory(0) EXCEPT !.future_key = <<"2.0">>]) }

\* a task of the raw input of a run
RawKind(named, p, c, d, et, du, dl, dd) ==
    [named |-> named, priority |-> p, category |-> c,
     estimated_duration |-> d, estimated_time |-> et, duration |-> du,
     deadline |-> dl, due_date |-> dd]

RawKinds ==
    { RawKind(FALSE, Absent, Absent, NoMinutesKey, NoMinutesKey, NoMinutesKey,
              DlNoKey, DlNoKey),
      RawKind(TRUE, "high", "coding", 120, NoMinutesKey, NoMinutesKey,
              4, DlNoKey),
      RawKind(TRUE, "high", "meeting", 0, NoMinutesKey, 30, DlEmpty, 3),
      RawKind(TRUE, "high", "general", 180, NoMinutesKey, NoMinutesKey,
              DlNoKey, DlNoKey) }

RawNamed(ks) ==
    [k \in 1..Len(ks) |->
        [name |-> IF ks[k].named THEN TaskNames[k] ELSE Absent,
         priority |-> ks[k].priority,
         category |-> ks[k].category,
         estimated_duration |-> ks[k].estimated_duration,
         estimated_time |-> ks[k].estimated_time,
         duration |-> ks[k].duration,
         deadline |-> ks[k].deadline,
         due_date |-> ks[k].due_date]]

\* the history of the process-wide bank when a run starts
RunHistories == {h \in Histories : Len(h) <= 1}

\* the wall clock when a run or a session scenario starts, seconds
StartSeconds == 2 * SESSION_TIMEOUT

\* the context an earlier run left in a session
OldContext ==
    [key \in ContextKeys |->
        IF key = "user_preferences" THEN <<"prefs">> ELSE <<>>]

\* the session a call finds under an id: none, one last accessed exactly
\* the timeout ago, one last accessed a second earlier
FoundSessions ==
    { <<>>,
      <<[last_accessed |-> StartSeconds - SESSION_TIMEOUT,
         context_data |-> OldContext]>>,
      <<[last_accessed |-> StartSeconds - SESSION_TIMEOUT - 1,
         context_data |-> OldContext]>> }

\* the message queue an earlier run of the same orchestrator left: none,
\* or the three messages of a run that raised in the planner
EarlierQueues ==
    { <<>>,
      << A2AMessage("orchestrator", "collector", "collect_tasks", <<>>),
         A2AMessage("collector", "priority", "prioritize_tasks", <<>>),
         A2AMessage("priority", "planner", "create_plan", <<>>) >> }

\* blocks of a plan handed to the evaluator directly
TaskBlock(p, d) ==
    [type |-> "task", name |-> "task", category |-> "general",
     priority |-> p, start_time |-> isoformat(0), end_time |-> isoformat(d),
     duration |-> d]

BreakBlock(d) ==
    [type |-> "break", name |-> BreakName(d), category |-> Absent,
     priority |-> Absent, start_time |-> isoformat(0),
     end_time |-> isoformat(d), duration |-> d]

EvalBlocks ==
    { TaskBlock("high", 200), TaskBlock("medium", 120), TaskBlock("low", 60),
      BreakBlock(15) }

HighRun(n) == [k \in 1..n |-> TaskBlock("high", 200)]

\* a day of two-hour tasks, as blocks and as a task list for the planner
TwoHourRun(n) == [k \in 1..n |-> TaskBlock("high", 120)]

SevenTasks == Named([k \in 1..7 |-> Kind("high", "general", 120, DlNone)])

DirectPlan(blocks, ib) ==
    [scheduled_tasks |-> blocks,
     task_count |-> Len(TaskItems(blocks)),
     total_work_minutes |-> SumSeq(Durations(TaskItems(blocks))),
     includes_breaks |-> ib]

NoPlan == DirectPlan(<<>>, Absent)

NoEvaluation ==
    [total_score |-> 0, max_score |-> 100, grade |-> "",
     scores_breakdown |-> [time_efficiency |-> 0, priority_alignment |-> 0,
                           feasibility |-> 0, work_life_balance |-> 0],
     feedback |-> <<>>, recommendations |-> <<>>]

\* no reflection is under way
ReflectIdle ==
    /\ completed_list = <<>>
    /\ planned_list = <<>>
    /\ reflection = NoReflection

\* no run of process_tasks is under way
RunIdle ==
    /\ raw_tasks = <<>>
    /\ session_id = ""
    /\ message_queue = <<>>
    /\ reminders = NoReminders
    /\ bundle = NoBundle

\* the session service holds no session
SessionIdle ==
    /\ sessions = [id \in SessionIds |-> <<>>]
    /\ seconds = 0
    /\ outcome = NoOutcome

\* the process-wide bank was constructed with no file behind it
StoreIdle ==
    /\ memory = [i \in Instances |->
                    IF i = 1 THEN <<DefaultMemory(0)>> ELSE <<>>]
    /\ disk = <<>>
    /\ clock = 0
    /\ calls = <<>>

(***************************************************************************)
(* The pipeline run of AgentOrchestrator.process_tasks, from the collected *)
(* tasks on.                                                               *)
(***************************************************************************)
Init ==
    /\ preferences = [stored |-> FALSE, value |-> {}]
    /\ \E ks \in SeqsUpTo(PipelineKinds, MaxTasks) \cup [1..1 -> ScoringKinds] :
          tasks = Named(ks)
    /\ prioritized = <<>>
    /\ plan = NoPlan
    /\ user_preferences = NoPref
    /\ evaluation = NoEvaluation
    /\ pc = "collected"
    /\ ReflectIdle
    /\ RunIdle
    /\ SessionIdle
    /\ StoreIdle

\* MemoryBank.store_preference("morning_categories", value), before a run
StorePreference(value) ==
    /\ pc = "collected"
    /\ preferences' = [stored |-> TRUE, value |-> value]
    /\ UNCHANGED <<tasks, prioritized, plan, user_preferences, evaluation, pc>>
    /\ UNCHANGED <<reflectVars, storeVars, runVars, sessionVars>>

\* PriorityAgent.prioritize_tasks
Prioritize ==
    /\ pc = "collected"
    /\ prioritized' = prioritize_tasks(tasks, preferences)
    /\ pc' = "prioritized"
    /\ UNCHANGED <<preferences, tasks, plan, user_preferences, evaluation>>
    /\ UNCHANGED <<reflectVars, storeVars, runVars, sessionVars>>

\* PlannerAgent.create_plan returns
PlanReturns ==
    /\ pc = "prioritized"
    /\ ~SortRaisesTypeError(prioritized)
    /\ plan' = create_plan(prioritized)
    /\ pc' = "planned"
    /\ UNCHANGED <<preferences, tasks, prioritized, user_preferences,
                   evaluation>>
    /\ UNCHANGED <<reflectVars, storeVars, runVars, sessionVars>>

\* PlannerAgent.create_plan raises out of sorted()
PlanRaises ==
    /\ pc = "prioritized"
    /\ SortRaisesTypeError(prioritized)
    /\ pc' = "raised"
    /\ UNCHANGED <<preferences, tasks, prioritized, plan, user_preferences,
                   evaluation>>
    /\ UNCHANGED <<reflectVars, storeVars, runVars, sessionVars>>

\* PlanEvaluator.evaluate_plan
Evaluate ==
    /\ pc = "planned"
    /\ evaluation' = evaluate_plan(plan, user_preferences)
    /\ pc' = "evaluated"
    /\ UNCHANGED <<preferences, tasks, prioritized, plan, user_preferences>>
    /\ UNCHANGED <<reflectVars, storeVars, runVars, sessionVars>>

Next ==
    \/ \E value \in MorningChoices : StorePreference(value)
    \/ Prioritize
    \/ PlanReturns
    \/ PlanRaises
    \/ Evaluate

Spec == Init /\ [][Next]_vars

(***************************************************************************)
(* The scheduler on every list of scored tasks, in any order.              *)
(***************************************************************************)
InitSched ==
    /\ preferences = [stored |-> FALSE, value |-> {}]
    /\ \E ks \in SeqsUpTo(SchedKinds, MaxSchedTasks) :
          /\ tasks = Named(ks)
          /\ prioritized =
                WithRanks([k \in 1..Len(ks) |-> _score_task(Named(ks)[k])])
    /\ plan = NoPlan
    /\ user_preferences = NoPref
    /\ evaluation = NoEvaluation
    /\ pc = "prioritized"
    /\ ReflectIdle
    /\ RunIdle
    /\ SessionIdle
    /\ StoreIdle

NextSched == PlanReturns \/ PlanRaises \/ Evaluate

SpecSched == InitSched /\ [][NextSched]_vars

(***************************************************************************)
(* The evaluator on plans handed to it directly.                           *)
(***************************************************************************)
InitEval ==
    /\ preferences = [stored |-> FALSE, value |-> {}]
    /\ tasks = <<>>
    /\ prioritized = <<>>
    /\ \/ \E blocks \in SeqsUpTo(EvalBlocks, MaxPlanLen),
             n \in 0..MaxHighRun, ib \in {Absent, "True", "False"} :
             \/ plan = DirectPlan(blocks \o HighRun(n), ib)
             \/ plan = DirectPlan(blocks \o TwoHourRun(n), ib)
       \/ plan = create_plan(WithRanks([k \in 1..7 |->
                                          _score_task(SevenTasks[k])]))
    /\ user_preferences \in {NoPref, 6, 10}
    /\ evaluation = NoEvaluation
    /\ pc = "planned"
    /\ ReflectIdle
    /\ RunIdle
    /\ SessionIdle
    /\ StoreIdle

NextEval == Evaluate

SpecEval == InitEval /\ [][NextEval]_vars

(***************************************************************************)
(* ReflectionAgent.reflect_and_learn on the lists of a session, with the   *)
(* task history the process-wide bank holds.                                *)
(***************************************************************************)
InitReflect ==
    /\ preferences = [stored |-> FALSE, value |-> {}]
    /\ tasks = <<>>
    /\ prioritized = <<>>
    /\ plan = NoPlan
    /\ user_preferences = NoPref
    /\ evaluation = NoEvaluation
    /\ completed_list \in SeqsUpTo(CompletedKinds, MaxCompleted)
    /\ planned_list \in SeqsUpTo(PlannedKinds, MaxPlanned)
    /\ reflection = NoReflection
    /\ \E h \in Histories :
          /\ memory = [i \in Instances |->
                          IF i = 1 THEN <<BankWith(h)>> ELSE <<>>]
          /\ disk = save(BankWith(h))
    /\ clock = 0
    /\ calls = <<>>
    /\ RunIdle
    /\ SessionIdle
    /\ pc = "reflecting"

\* _update_memory: learn_pattern for each pattern, each call saving
RECURSIVE LearnAll(_, _, _)
LearnAll(mem, patterns, now) ==
    IF patterns = <<>> THEN mem
    ELSE LearnAll(learn_pattern(mem, Head(patterns).pattern, Head(patterns),
                                now),
                  Tail(patterns), now)

\* reflect_and_learn returns
ReflectReturns ==
    LET result == reflect_and_learn(completed_list, planned_list,
                                    memory[1][1])
        patterns == _update_memory(result.learning_insights)
    IN  /\ pc = "reflecting"
        /\ result.error = ""
        /\ reflection' = result
        /\ memory' = [memory EXCEPT
                         ![1] = <<LearnAll(memory[1][1], patterns, clock)>>]
        /\ disk' = IF patterns = <<>> THEN disk ELSE save(memory'[1][1])
        /\ pc' = "reflected"
        /\ UNCHANGED <<runVars, sessionVars>>
        /\ UNCHANGED <<pipeVars, completed_list, planned_list, clock, calls>>

\* reflect_and_learn logs the exception and raises it again
ReflectRaises ==
    LET result == reflect_and_learn(completed_list, planned_list,
                                    memory[1][1])
    IN  /\ pc = "reflecting"
        /\ result.error # ""
        /\ reflection' = result
        /\ pc' = "reflect_raised"
        /\ UNCHANGED <<runVars, sessionVars>>
        /\ UNCHANGED <<pipeVars, completed_list, planned_list, storeVars>>

NextReflect == ReflectReturns \/ ReflectRaises

SpecReflect == InitReflect /\ [][NextReflect]_vars

(***************************************************************************)
(* The MemoryBank instances of the sessions (processes) that share the     *)
(* file at Config.MEMORY_BANK_PATH.  A call runs from its first statement  *)
(* to the return of save(); the calls of different instances interleave.   *)
(* A task handed to store_task_completion is numbered by the minute of     *)
(* the call.                                                                *)
(***************************************************************************)
\* the number of mutating calls of a run
CallBudget == IF pc = "history" THEN MaxStores ELSE MaxCalls

Call(i, op, key, id) == [inst |-> i, op |-> op, key |-> key, id |-> id]

\* MemoryBank(): the default dict, then load()
Construct(i) ==
    /\ pc = "store"
    /\ memory[i] = <<>>
    /\ memory' = [memory EXCEPT ![i] = <<load(DefaultMemory(clock), disk)>>]
    /\ UNCHANGED <<runVars, sessionVars, pipeVars, reflectVars, disk, clock, calls, pc>>

CallStorePreference(i, key, value) ==
    /\ pc = "store"
    /\ memory[i] # <<>>
    /\ Len(calls) < CallBudget
    /\ memory' = [memory EXCEPT
                     ![i] = <<store_preference(@[1], key, value, clock)>>]
    /\ disk' = save(memory'[i][1])
    /\ clock' = clock + 1
    /\ calls' = Append(calls, Call(i, "store_preference", key, 0))
    /\ UNCHANGED <<runVars, sessionVars, pipeVars, reflectVars, pc>>

CallStoreTaskCompletion(i, task, completion_time, actual) ==
    /\ pc \in {"store", "history"}
    /\ memory[i] # <<>>
    /\ Len(calls) < CallBudget
    /\ memory' = [memory EXCEPT
                     ![i] = <<store_task_completion(@[1], task,
                                                    completion_time, actual,
                                                    clock)>>]
    /\ disk' = save(memory'[i][1])
    /\ clock' = clock + 1
    /\ calls' = Append(calls, Call(i, "store_task_completion", "", task.id))
    /\ UNCHANGED <<runVars, sessionVars, pipeVars, reflectVars, pc>>

\* faulty variant: returns without save()
CallLearnPattern_mutant(i, pattern_name, pattern_data) ==
    /\ pc = "store"
    /\ memory[i] # <<>>
    /\ Len(calls) < CallBudget
    /\ memory' = [memory EXCEPT
                     ![i] = <<learn_pattern(@[1], pattern_name, pattern_data,
                                            clock)>>]
    /\ clock' = clock + 1
    /\ calls' = Append(calls, Call(i, "learn_pattern", pattern_name, 0))
    /\ UNCHANGED <<runVars, sessionVars, pipeVars, reflectVars, pc, disk>>

CallLearnPattern(i, pattern_name, pattern_data) ==
    /\ pc = "store"
    /\ memory[i] # <<>>
    /\ Len(calls) < CallBudget
    /\ memory' = [memory EXCEPT
                     ![i] = <<learn_pattern(@[1], pattern_name, pattern_data,
                                            clock)>>]
    /\ disk' = save(memory'[i][1])
    /\ clock' = clock + 1
    /\ calls' = Append(calls, Call(i, "learn_pattern", pattern_name, 0))
    /\ UNCHANGED <<runVars, sessionVars, pipeVars, reflectVars, pc>>

CallClear(i) ==
    /\ pc = "store"
    /\ memory[i] # <<>>
    /\ Len(calls) < CallBudget
    /\ memory' = [memory EXCEPT ![i] = <<clear(clock)>>]
    /\ disk' = save(memory'[i][1])
    /\ clock' = clock + 1
    /\ calls' = Append(calls, Call(i, "clear", "", 0))
    /\ UNCHANGED <<runVars, sessionVars, pipeVars, reflectVars, pc>>

\* load() called again on a constructed instance
CallLoad(i) ==
    /\ pc = "store"
    /\ memory[i] # <<>>
    /\ memory' = [memory EXCEPT ![i] = <<load(@[1], disk)>>]
    /\ UNCHANGED <<runVars, sessionVars, pipeVars, reflectVars, disk, clock, calls, pc>>

PipelineIdle ==
    /\ preferences = [stored |-> FALSE, value |-> {}]
    /\ tasks = <<>>
    /\ prioritized = <<>>
    /\ plan = NoPlan
    /\ user_preferences = NoPref
    /\ evaluation = NoEvaluation

InitStore ==
    /\ PipelineIdle
    /\ ReflectIdle
    /\ RunIdle
    /\ SessionIdle
    /\ memory = [i \in Instances |-> <<>>]
    /\ disk \in InitialFiles
    /\ clock = 1
    /\ calls = <<>>
    /\ pc = "store"

NextStore ==
    \E i \in Instances :
        \/ Construct(i)
        \/ \E input \in PreferenceInputs :
               CallStorePreference(i, input[1], input[2])
        \/ \E actual \in {NoneMinutes, 70} :
               CallStoreTaskCompletion(i, HistoryTask(clock, "coding"), clock,
                                       actual)
        \/ \E input \in PatternInputs :
               CallLearnPattern(i, input[1], input[2])
        \/ CallClear(i)
        \/ CallLoad(i)

SpecStore == InitStore /\ [][NextStore]_vars

(***************************************************************************)
(* One bank whose history is near the limit, and the completions stored    *)
(* into it.  The clock starts at the number of completions stored so far,  *)
(* so the task of the next call carries the next number.                    *)
(***************************************************************************)
InitHistory ==
    /\ PipelineIdle
    /\ ReflectIdle
    /\ RunIdle
    /\ SessionIdle
    /\ \E n \in HistoryStarts :
          /\ memory = [i \in Instances |->
                          IF i = 1 THEN <<BankWith(OldRecords(n))>> ELSE <<>>]
          /\ disk = save(BankWith(OldRecords(n)))
          /\ clock = n
    /\ calls = <<>>
    /\ pc = "history"

NextHistory ==
    \E category \in {"coding", "meeting"}, actual \in {NoneMinutes, 70} :
        CallStoreTaskCompletion(1, HistoryTask(clock + 1, category),
                                clock + 1, actual)

SpecHistory == InitHistory /\ [][NextHistory]_vars

(***************************************************************************)
(* One run of AgentOrchestrator.process_tasks(raw_tasks, session_id), a    *)
(* step for each stage.  The objects a session's context refers to are     *)
(* named by the local variable that holds them.                            *)
(***************************************************************************)
InitRun ==
    /\ preferences = [stored |-> FALSE, value |-> {}]
    /\ tasks = <<>>
    /\ prioritized = <<>>
    /\ plan = NoPlan
    /\ user_preferences = NoPref
    /\ evaluation = NoEvaluation
    /\ ReflectIdle
    /\ \E h \in RunHistories :
          memory = [i \in Instances |->
                       IF i = 1 THEN <<BankWith(h)>> ELSE <<>>]
    /\ disk = <<>>
    /\ clock = 0
    /\ calls = <<>>
    /\ \E ks \in SeqsUpTo(RawKinds, MaxRunTasks) : raw_tasks = RawNamed(ks)
    /\ session_id \in SessionIds
    /\ message_queue \in EarlierQueues
    /\ reminders = NoReminders
    /\ bundle = NoBundle
    /\ \E found \in FoundSessions :
          sessions = [id \in SessionIds |->
                         IF id = session_id THEN found ELSE <<>>]
    /\ seconds = StartSeconds
    /\ outcome = NoOutcome
    /\ pc = "start"

\* _send_to_agent up to the await: the message joins the queue
Sent(from_agent, to_agent, message_type, data) ==
    Append(message_queue, A2AMessage(from_agent, to_agent, message_type, data))

\* session = get_session(session_id); if not session: create_session(...);
\* then the collector stage and update_context("collected_tasks")
RunCollect ==
    LET got == get_session(sessions, session_id, seconds)
        opened == IF got.returned = "None"
                  THEN create_session(got.sessions, session_id, seconds)
                  ELSE got.sessions
        collected == collect_tasks(raw_tasks)
    IN  /\ pc = "start"
        /\ message_queue' = Sent("orchestrator", "collector", "collect_tasks",
                                 raw_tasks)
        /\ tasks' = collected
        /\ sessions' = update_context(opened, session_id, "collected_tasks",
                                      "collected", seconds).sessions
        /\ pc' = "collected"
        /\ UNCHANGED <<preferences, prioritized, plan, user_preferences,
                       evaluation, reflectVars, storeVars>>
        /\ UNCHANGED <<raw_tasks, session_id, reminders, bundle, seconds,
                       outcome>>

\* the priority stage and update_context("prioritized_tasks")
RunPrioritize ==
    /\ pc = "collected"
    /\ message_queue' = Sent("collector", "priority", "prioritize_tasks",
                             tasks)
    /\ prioritized' = prioritize_tasks(tasks, preferences)
    /\ sessions' = update_context(sessions, session_id, "prioritized_tasks",
                                  "prioritized", seconds).sessions
    /\ pc' = "prioritized"
    /\ UNCHANGED <<preferences, tasks, plan, user_preferences, evaluation,
                   reflectVars, storeVars>>
    /\ UNCHANGED <<raw_tasks, session_id, reminders, bundle, seconds,
                   outcome>>

\* the planner stage returns; update_context of formatted_schedule and of
\* planned_schedule
RunPlanReturns ==
    /\ pc = "prioritized"
    /\ ~SortRaisesTypeError(prioritized)
    /\ message_queue' = Sent("priority", "planner", "create_plan",
                             prioritized)
    /\ plan' = create_plan(prioritized)
    /\ sessions' =
          update_context(
              update_context(sessions, session_id, "formatted_schedule",
                             "formatted_schedule", seconds).sessions,
              session_id, "planned_schedule", "planned", seconds).sessions
    /\ pc' = "planned"
    /\ UNCHANGED <<preferences, tasks, prioritized, user_preferences,
                   evaluation, reflectVars, storeVars>>
    /\ UNCHANGED <<raw_tasks, session_id, reminders, bundle, seconds,
                   outcome>>

\* the planner stage raises out of sorted(); except Exception: raise
RunPlanRaises ==
    /\ pc = "prioritized"
    /\ SortRaisesTypeError(prioritized)
    /\ message_queue' = Sent("priority", "planner", "create_plan",
                             prioritized)
    /\ pc' = "raised"
    /\ UNCHANGED <<pipeVars, reflectVars, storeVars, sessionVars>>
    /\ UNCHANGED <<raw_tasks, session_id, reminders, bundle>>

\* evaluate_plan(plan=planned, original_tasks=collected["tasks"]); no message
RunEvaluate ==
    /\ pc = "planned"
    /\ evaluation' = evaluate_plan(plan, user_preferences)
    /\ pc' = "evaluated"
    /\ UNCHANGED <<preferences, tasks, prioritized, plan, user_preferences,
                   reflectVars, storeVars, runVars, sessionVars>>

\* faulty variant: the reminder stage does not wait for the evaluation
RunRemind_mutant ==
    /\ pc \in {"planned", "evaluated"}
    /\ message_queue' = Sent("planner", "reminder", "create_reminders", plan)
    /\ reminders' = create_reminders(plan)
    /\ pc' = "reminded"
    /\ UNCHANGED <<pipeVars, reflectVars, storeVars, sessionVars>>
    /\ UNCHANGED <<raw_tasks, session_id, bundle>>

\* the reminder stage
RunRemind ==
    /\ pc = "evaluated"
    /\ message_queue' = Sent("planner", "reminder", "create_reminders", plan)
    /\ reminders' = create_reminders(plan)
    /\ pc' = "reminded"
    /\ UNCHANGED <<pipeVars, reflectVars, storeVars, sessionVars>>
    /\ UNCHANGED <<raw_tasks, session_id, bundle>>

\* the data of the reflect message
ReflectData == [planned_tasks |-> plan.scheduled_tasks, completed_tasks |-> <<>>]

\* faulty variant: the exception of the reflection stage is swallowed and
\* a bundle without the reflection is returned
RunReflectRaises_mutant ==
    LET reflected == handler_reflect_and_learn(ReflectData, session_id,
                                               memory[1][1])
    IN  /\ pc = "reminded"
        /\ reflected.error # ""
        /\ message_queue' = Sent("reminder", "reflection", "reflect",
                                 ReflectData)
        /\ completed_list' = CharsOf(session_id)
        /\ planned_list' = <<>>
        /\ reflection' = reflected
        /\ bundle' = <<[workflow_status |-> "partial",
                        outputs |-> [collected |-> tasks,
                                     prioritized |-> prioritized,
                                     planned |-> plan,
                                     evaluation |-> evaluation,
                                     reminders |-> reminders]]>>
        /\ pc' = "raised"
        /\ UNCHANGED <<pipeVars, storeVars, sessionVars>>
        /\ UNCHANGED <<raw_tasks, session_id, reminders>>

\* the reflection stage raises; except Exception: raise
RunReflectRaises ==
    LET reflected == handler_reflect_and_learn(ReflectData, session_id,
                                               memory[1][1])
    IN  /\ pc = "reminded"
        /\ reflected.error # ""
        /\ message_queue' = Sent("reminder", "reflection", "reflect",
                                 ReflectData)
        /\ completed_list' = CharsOf(session_id)
        /\ planned_list' = <<>>
        /\ reflection' = reflected
        /\ pc' = "raised"
        /\ UNCHANGED <<pipeVars, storeVars, sessionVars>>
        /\ UNCHANGED <<raw_tasks, session_id, reminders, bundle>>

\* the reflection stage returns and process_tasks returns the result
RunReflectReturns ==
    LET reflected == handler_reflect_and_learn(ReflectData, session_id,
                                               memory[1][1])
        patterns == _update_memory(reflected.learning_insights)
    IN  /\ pc = "reminded"
        /\ reflected.error = ""
        /\ message_queue' = Sent("reminder", "reflection", "reflect",
                                 ReflectData)
        /\ completed_list' = CharsOf(session_id)
        /\ planned_list' = <<>>
        /\ reflection' = reflected
        /\ memory' = [memory EXCEPT
                         ![1] = <<LearnAll(memory[1][1], patterns, clock)>>]
        /\ disk' = IF patterns = <<>> THEN disk ELSE save(memory'[1][1])
        /\ bundle' = <<[workflow_status |-> "completed",
                        outputs |-> [collected |-> tasks,
                                     prioritized |-> prioritized,
                                     planned |-> plan,
                                     evaluation |-> evaluation,
                                     reminders |-> reminders,
                                     reflection |-> reflected]]>>
        /\ pc' = "completed"
        /\ UNCHANGED <<pipeVars, clock, calls, sessionVars>>
        /\ UNCHANGED <<raw_tasks, session_id, reminders>>

NextRun ==
    \/ RunCollect
    \/ RunPrioritize
    \/ RunPlanReturns
    \/ RunPlanRaises
    \/ RunEvaluate
    \/ RunRemind
    \/ RunReflectReturns
    \/ RunReflectRaises

SpecRun == InitRun /\ [][NextRun]_vars

(***************************************************************************)
(* The session service under calls for two ids, while the clock advances.  *)
(***************************************************************************)
InitSession ==
    /\ PipelineIdle
    /\ ReflectIdle
    /\ StoreIdle
    /\ RunIdle
    /\ \E found \in FoundSessions :
          sessions = [id \in SessionIds |->
                         IF id = "s1" THEN found ELSE <<>>]
    /\ seconds = StartSeconds
    /\ outcome = NoOutcome
    /\ pc = "sessions"

\* what a call finds under the id
Found(id) ==
    IF sessions[id] = <<>> THEN "none"
    ELSE IF _is_expired(sessions[id][1], seconds) THEN "expired"
    ELSE "live"

Returned(op, id, returned) ==
    [n |-> outcome.n + 1, op |-> op, id |-> id, found |-> Found(id),
     returned |-> returned]

\* time passes between two calls
Tick(d) ==
    /\ pc = "sessions"
    /\ seconds + d <= StartSeconds + MaxElapsed
    /\ d = 1 => (seconds - StartSeconds) % SESSION_TIMEOUT = 0
    /\ seconds' = seconds + d
    /\ UNCHANGED <<pipeVars, reflectVars, storeVars, runVars, sessions,
                   outcome, pc>>

SessionCall ==
    /\ pc = "sessions"
    /\ outcome.n < MaxSessionCalls
    /\ UNCHANGED <<pipeVars, reflectVars, storeVars, runVars, seconds, pc>>

CallCreateSession(id) ==
    /\ SessionCall
    /\ sessions' = create_session(sessions, id, seconds)
    /\ outcome' = Returned("create_session", id, "session")

CallGetSession(id) ==
    LET got == get_session(sessions, id, seconds)
    IN  /\ SessionCall
        /\ sessions' = got.sessions
        /\ outcome' = Returned("get_session", id, got.returned)

CallUpdateContext(id, key, value) ==
    LET got == update_context(sessions, id, key, value, seconds)
    IN  /\ SessionCall
        /\ sessions' = got.sessions
        /\ outcome' = Returned("update_context", id, got.returned)

CallGetContext(id, key) ==
    LET got == get_context(sessions, id, key, seconds)
    IN  /\ SessionCall
        /\ sessions' = got.sessions
        /\ outcome' = Returned("get_context", id, got.returned)

\* process_tasks: session = get_session(id); if not session: create_session
OpenSession(id) ==
    LET got == get_session(sessions, id, seconds)
    IN  /\ SessionCall
        /\ sessions' = IF got.returned = "None"
                       THEN create_session(got.sessions, id, seconds)
                       ELSE got.sessions
        /\ outcome' = Returned("process_tasks", id, "session")

NextSession ==
    \/ \E d \in {1, SESSION_TIMEOUT} : Tick(d)
    \/ \E id \in SessionIds :
          \/ CallCreateSession(id)
          \/ CallGetSession(id)
          \/ CallUpdateContext(id, "collected_tasks", "collected")
          \/ \E key \in {"collected_tasks", "user_preferences"} :
                 CallGetContext(id, key)
          \/ OpenSession(id)

SpecSession == InitSession /\ [][NextSession]_vars

(***************************************************************************)
(* Properties.                                                             *)
(***************************************************************************)
Scored == pc \in {"prioritized", "planned", "raised", "evaluated"}

Planned == pc \in {"planned", "evaluated"}

Schedule == plan.scheduled_tasks

Span(b) == fromisoformat(b.end_time) - fromisoformat(b.start_time)

\* the position of the task called name in the list xs
PosIn(xs, name) == CHOOSE k \in 1..Len(xs) : xs[k].name = name

\* the task a task block was made from
TaskOf(b) == prioritized[PosIn(prioritized, b.name)]

\* a float score to the nearest hundredth
Hundredths(score) == (score + 5) \div 10

\* C1: a schedule the Scheduler builds starts at 09:00, every block's
\* duration is its end_time minus its start_time, each block ends where the
\* next one starts, and the blocks alternate task, break, task, break, ...
C1_ScheduleContiguous ==
    Planned =>
        /\ Schedule # <<>> => Schedule[1].start_time = <<0, 9, 0>>
        /\ \A k \in 1..Len(Schedule) : Schedule[k].duration = Span(Schedule[k])
        /\ \A k \in 1..(Len(Schedule) - 1) :
              Schedule[k].end_time = Schedule[k + 1].start_time
        /\ \A k \in 1..Len(Schedule) :
              Schedule[k].type = IF k % 2 = 1 THEN "task" ELSE "break"

C1_Witness ==
    /\ pc = "planned"
    /\ Len(Schedule) >= 4
    /\ \E k \in 1..Len(Schedule) :
          Schedule[k].type = "break" /\ Schedule[k].duration = 15

ClaimRank(t) ==
    CASE t.priority = "high" -> 1 [] t.priority = "medium" -> 2
      [] t.priority = "low" -> 3

Dated(t) == t.deadline \in 1..MaxIso

\* a comes before b in the order the claim states, i and j their positions
\* in the scheduler's input
ClaimBefore(a, i, b, j) ==
    \/ ClaimRank(a) < ClaimRank(b)
    \/ /\ ClaimRank(a) = ClaimRank(b)
       /\ \/ Dated(a) /\ ~Dated(b)
          \/ Dated(a) /\ Dated(b) /\ a.deadline < b.deadline
          \/ /\ Dated(a) = Dated(b)
             /\ Dated(a) => a.deadline = b.deadline
             /\ i < j

\* C2: the task blocks are in the order priority rank (high, medium, low),
\* then deadline ascending with the tasks that have no deadline after the
\* dated ones of the same priority, then input order.
C2_SchedulerOrder ==
    Planned =>
        \A m, n \in 1..Len(Schedule) :
            (m < n /\ Schedule[m].type = "task" /\ Schedule[n].type = "task")
            => ClaimBefore(TaskOf(Schedule[m]),
                           PosIn(prioritized, Schedule[m].name),
                           TaskOf(Schedule[n]),
                           PosIn(prioritized, Schedule[n].name))

\* C3: each task block lasts the task's estimated_duration and the block
\* after it is a break that starts where the task ends and lasts 15 minutes
\* when the duration is >= 60 and 5 minutes otherwise; a break is never of
\* another length.
C3_TaskThenBreak ==
    Planned =>
        /\ \A k \in 1..Len(Schedule) :
              Schedule[k].type = "task" =>
                  LET d == TaskOf(Schedule[k]).estimated_duration
                  IN  /\ Schedule[k].duration = d
                      /\ Span(Schedule[k]) = d
                      /\ k + 1 <= Len(Schedule)
                      /\ Schedule[k + 1].type = "break"
                      /\ Schedule[k + 1].start_time = Schedule[k].end_time
                      /\ Schedule[k + 1].duration = IF d >= 60 THEN 15 ELSE 5
                      /\ Span(Schedule[k + 1]) = IF d >= 60 THEN 15 ELSE 5
        /\ \A k \in 1..Len(Schedule) :
              Schedule[k].type = "break" => Schedule[k].duration \in {5, 15}

C3_Witness ==
    /\ pc = "planned"
    /\ \E k \in 1..(Len(Schedule) - 1) :
          /\ Schedule[k].type = "task" /\ Schedule[k].duration = 60
          /\ Schedule[k + 1].duration = 15
    /\ \E k \in 1..(Len(Schedule) - 1) :
          /\ Schedule[k].type = "task" /\ Schedule[k].duration = 30
          /\ Schedule[k + 1].duration = 5

\* C4: two tasks with the same final priority_score are in the scorer's
\* output in the order they had in the input.
C4_TiesKeepInputOrder ==
    Scored =>
        \A m, n \in 1..Len(prioritized) :
            (m < n /\ prioritized[m].priority_score
                        = prioritized[n].priority_score)
            => PosIn(tasks, prioritized[m].name)
                 < PosIn(tasks, prioritized[n].name)

\* C5: the scorer returns as many tasks as it was given, their ranks are
\* 1, 2, ..., n in list order, and the final priority_score never increases
\* along the list.
C5_DenseRanks ==
    Scored =>
        /\ Len(prioritized) = Len(tasks)
        /\ \A k \in 1..Len(prioritized) : prioritized[k].rank = k
        /\ \A k \in 1..(Len(prioritized) - 1) :
              prioritized[k].priority_score
                >= prioritized[k + 1].priority_score

C5_Witness ==
    /\ pc = "prioritized"
    /\ Len(prioritized) >= 3
    /\ prioritized[1].name # "t1"
    /\ \E k \in 1..Len(prioritized) : prioritized[k].adjusted_for_preferences
    /\ prioritized[1].priority_score > prioritized[3].priority_score

ClaimUrgency(p) ==
    IF p \in {"high", "medium", "low"}
    THEN [high |-> 5, medium |-> 3, low |-> 1][p]
    ELSE 3

ClaimImportance(c) ==
    IF c = "meeting" THEN 4
    ELSE IF c \in {"coding", "review", "planning"} THEN 3
    ELSE 2

ClaimEffort(d) ==
    CASE d <= 30 -> 1
      [] d > 30 /\ d <= 60 -> 2
      [] d > 60 /\ d <= 120 -> 3
      [] d > 120 /\ d <= 180 -> 4
      [] d > 180 -> 5

ClaimBonus(dd) ==
    CASE dd = NoneDays -> 0
      [] dd # NoneDays /\ dd <= 1 -> 50
      [] dd > 1 /\ dd <= 3 -> 30
      [] dd > 3 /\ dd <= 7 -> 10
      [] dd > 7 -> 0

\* the base score of a scored task, in hundredths: its final score without
\* the preference adjustment
BaseScore(t) ==
    Hundredths(t.priority_score)
      - (IF t.adjusted_for_preferences THEN 20 ELSE 0)

\* C6: the base score is 0.4*urgency + 0.4*importance + 0.1*(6 - effort)
\* + deadline_bonus with the factors read from the lookup tables, and a task
\* whose deadline is absent or unparseable has deadline_days None and bonus
\* 0, never the bonus of a task due today.
C6_BaseScore ==
    Scored =>
        \A k \in 1..Len(prioritized) :
            LET t == prioritized[k]
                d == t.scoring_details
                undated == t.deadline \notin 1..MaxIso
            IN  /\ d.urgency = ClaimUrgency(t.priority)
                /\ d.importance = ClaimImportance(t.category)
                /\ d.effort = ClaimEffort(t.estimated_duration)
                /\ undated => d.deadline_days = NoneDays
                /\ ~undated =>
                      d.deadline_days = Max(t.deadline - IsoToday, 0)
                /\ BaseScore(t) = 40 * d.urgency + 40 * d.importance
                                   + 10 * (6 - d.effort)
                                   + ClaimBonus(d.deadline_days)
                /\ undated => BaseScore(t) = 40 * d.urgency + 40 * d.importance
                                              + 10 * (6 - d.effort)

C6_Witness ==
    /\ pc = "prioritized"
    /\ \E k \in 1..Len(prioritized) :
          /\ prioritized[k].deadline = DlText
          /\ prioritized[k].priority = "urgent"
          /\ prioritized[k].category = "writing"
          /\ prioritized[k].scoring_details.deadline_days = NoneDays
          /\ prioritized[k].priority_score = 10 * (120 + 80 + 10)

\* C7: a task is flagged adjusted_for_preferences and scores its base score
\* + 0.2 exactly when its category is in the stored morning_categories
\* preference, {meeting, review} when none is stored; every other task keeps
\* its base score and no flag.
C7_PreferenceAdjustment ==
    Scored =>
        \A k \in 1..Len(prioritized) :
            LET t == prioritized[k]
                d == t.scoring_details
                cats == IF preferences.stored THEN preferences.value
                        ELSE {"meeting", "review"}
                base == calculate_priority_score(d.urgency, d.importance,
                                                 d.effort, d.deadline_days)
            IN  /\ t.adjusted_for_preferences <=> t.category \in cats
                /\ t.category \in cats
                      => Hundredths(t.priority_score) = base + 20
                /\ t.category \notin cats => t.priority_score = 10 * base

C7_Witness ==
    /\ pc = "prioritized"
    /\ preferences.stored
    /\ \E k \in 1..Len(prioritized) :
          /\ prioritized[k].adjusted_for_preferences
          /\ prioritized[k].category = "coding"
    /\ \E k \in 1..Len(prioritized) :
          /\ ~prioritized[k].adjusted_for_preferences
          /\ prioritized[k].category = "meeting"

ClaimGrade(total) ==
    CASE total >= 90 -> "A"
      [] total >= 80 /\ total < 90 -> "B"
      [] total >= 70 /\ total < 80 -> "C"
      [] total >= 60 /\ total < 70 -> "D"
      [] total < 60 -> "F"

\* C8: each of the four sub-scores is in [0, 25], total_score is their sum
\* and is in [0, 100], and the grade is A from 90, B from 80, C from 70,
\* D from 60 and F below.
C8_ScoresAndGrade ==
    pc = "evaluated" =>
        LET sb == evaluation.scores_breakdown
        IN  /\ \A k \in 1..Len(Criteria) :
                  sb[Criteria[k]] >= 0 /\ sb[Criteria[k]] <= 25
            /\ evaluation.total_score
                 = sb.time_efficiency + sb.priority_alignment
                   + sb.feasibility + sb.work_life_balance
            /\ evaluation.total_score >= 0 /\ evaluation.total_score <= 100
            /\ evaluation.grade = ClaimGrade(evaluation.total_score)

C8_Witness ==
    /\ pc = "evaluated"
    /\ evaluation.total_score = 90
    /\ evaluation.grade = "A"
    /\ evaluation.scores_breakdown.feasibility = 25

\* the task blocks of the schedule, breaks left out
WorkMinutes == SumSeq(Durations(TaskItems(Schedule)))

\* C9: the time-efficiency sub-score is 25, minus 5 when the task blocks
\* total less than 360 or more than 480 minutes, minus 3 when there are
\* fewer than 3 task blocks, and not below 0.  Stated for the schedules
\* that hold at least one block.
C9_TimeEfficiency ==
    (pc = "evaluated" /\ Schedule # <<>>) =>
        evaluation.scores_breakdown.time_efficiency
          = Max(0, 25 - (IF WorkMinutes < 360 \/ WorkMinutes > 480
                         THEN 5 ELSE 0)
                      - (IF Len(TaskItems(Schedule)) < 3 THEN 3 ELSE 0))

\* C10: the priority-alignment sub-score is 25, minus 3 for each block of
\* priority high at a 0-based index above 2, minus 2 when the block at
\* index 0 has priority low, and not below 0.
C10_PriorityAlignment ==
    pc = "evaluated" =>
        LET late == {k \in 1..Len(Schedule) :
                       Schedule[k].priority = "high" /\ k - 1 > 2}
            lowFirst == Schedule # <<>> /\ Schedule[1].priority = "low"
        IN  evaluation.scores_breakdown.priority_alignment
              = Max(0, 25 - 3 * Cardinality(late)
                          - (IF lowFirst THEN 2 ELSE 0))

C10_Witness ==
    /\ pc = "evaluated"
    /\ Len(Schedule) >= 3
    /\ Schedule[1].priority = "low"
    /\ Schedule[3].type = "break"
    /\ Cardinality({k \in 1..Len(Schedule) :
                      Schedule[k].priority = "high" /\ k - 1 > 2}) = 9
    /\ evaluation.scores_breakdown.priority_alignment = 0

BalanceWith(nb) ==
    LET total == SumSeq(Durations(Schedule))
        hours == IF user_preferences = NoPref THEN 8 ELSE user_preferences
    IN  Max(0, 25 - nb - (IF total > 600 THEN 10 ELSE 0)
                  - (IF total > hours * 60 THEN 5 ELSE 0))

HasBreakBlock == \E k \in 1..Len(Schedule) : Schedule[k].type = "break"

\* C12: the work-life-balance sub-score carries the 5-point no-break
\* penalty exactly when the schedule holds no break block; a schedule the
\* planner laid out for at least one task holds break blocks and so never
\* carries it.
C12_NoBreakPenalty ==
    pc = "evaluated" =>
        evaluation.scores_breakdown.work_life_balance
          = BalanceWith(IF HasBreakBlock THEN 0 ELSE 5)

\* the entries of a list, as a set
Range(xs) == {xs[k] : k \in 1..Len(xs)}

\* C13: for each of the four criteria on its own, the feedback holds the
\* criterion's string exactly when its sub-score is below 15 and the
\* recommendations hold the criterion's entry exactly when its sub-score is
\* below 20; so a criterion with feedback always has its recommendation.
C13_FeedbackThresholds ==
    pc = "evaluated" =>
        \A k \in 1..Len(Criteria) :
            LET c == Criteria[k]
                score == evaluation.scores_breakdown[c]
            IN  /\ c \in Range(evaluation.feedback) <=> score < 15
                /\ c \in Range(evaluation.recommendations) <=> score < 20
                /\ c \in Range(evaluation.feedback)
                      => c \in Range(evaluation.recommendations)

C13_Witness ==
    /\ pc = "evaluated"
    /\ evaluation.scores_breakdown.feasibility < 15
    /\ "feasibility" \in Range(evaluation.feedback)
    /\ "feasibility" \in Range(evaluation.recommendations)
    /\ evaluation.scores_breakdown.work_life_balance = 15
    /\ "work_life_balance" \notin Range(evaluation.feedback)
    /\ "work_life_balance" \in Range(evaluation.recommendations)

TaskHistory == memory[1][1].task_history

\* a record of the history was stored without its actual duration
HistoryLacksDuration ==
    \E k \in 1..Len(TaskHistory) :
        TaskHistory[k].actual_duration = NoneMinutes

\* a completed task carries a None duration
CompletedLacksDuration ==
    \E k \in 1..Len(completed_list) :
        SessionMinutes(completed_list[k]) = NoneMinutes

ReasonClauses == {reflection.replan_reason[k].clause :
                    k \in 1..Len(reflection.replan_reason)}

\* the ids of the completed tasks; None stands among them when a completed
\* task carries no id
ClaimCompletedIds == {completed_list[k].id : k \in 1..Len(completed_list)}

\* the planned tasks of priority high whose id is not a completed id
ClaimIncompleteHigh ==
    {k \in 1..Len(planned_list) :
        /\ planned_list[k].priority = "high"
        /\ planned_list[k].id \notin ClaimCompletedIds}

ClaimLowCompletion == 100 * Len(completed_list) < 50 * Len(planned_list)

NoIdHigh ==
    {k \in 1..Len(planned_list) :
        planned_list[k].priority = "high" /\ planned_list[k].id = Absent}

\* the planned tasks of priority high whose id no completed task carries
MissingIdHigh ==
    {k \in 1..Len(planned_list) :
        /\ planned_list[k].priority = "high"
        /\ planned_list[k].id # Absent
        /\ planned_list[k].id \notin ClaimCompletedIds}

TwoHighWithoutId ==
    /\ completed_list = <<>>
    /\ Len(planned_list) = 2
    /\ \A k \in 1..2 : planned_list[k].priority = "high"
                        /\ planned_list[k].id = Absent

ReflectionOver(h) ==
    reflect_and_learn(completed_list, planned_list,
                      [memory[1][1] EXCEPT !.task_history = h])

C18_HistoryFifo ==
    pc = "history" =>
        /\ Len(TaskHistory) <= 1000
        /\ Len(TaskHistory) = Min(1000, clock)
        /\ \A k \in 1..Len(TaskHistory) :
              TaskHistory[k].task_id = clock - Len(TaskHistory) + k
        /\ calls # <<>>
              => TaskHistory[Len(TaskHistory)].task_id = calls[Len(calls)].id

C18_Witness ==
    /\ pc = "history"
    /\ Len(calls) = 3
    /\ clock = 1002
    /\ Len(TaskHistory) = 1000
    /\ TaskHistory[1].task_id = 3
    /\ TaskHistory[1000].task_id = 1002

LastCall == calls[Len(calls)]

\* C19: whenever store_preference, store_task_completion, learn_pattern or
\* clear has returned, the file holds the JSON document of the memory dict
\* of the instance that was called: no mutation is held in memory only.
C19_WriteThrough ==
    (pc = "store" /\ calls # <<>>) =>
        disk = <<json_dump(memory[LastCall.inst][1])>>

C19_Witness ==
    /\ pc = "store"
    /\ Len(calls) = 2
    /\ calls[1].op = "clear"
    /\ LastCall.op = "store_preference"
    /\ LastCall.inst = 2
    /\ memory[2][1].user_preferences["morning_categories"][1].value.py
         = "tuple"
    /\ disk[1].user_preferences["morning_categories"][1].value.js = "array"
    /\ disk[1].metadata = memory[2][1].metadata

\* the mutation of a call is in the file
Persisted(c) ==
    /\ disk # <<>>
    /\ c.op = "store_preference" => disk[1].user_preferences[c.key] # <<>>
    /\ c.op = "learn_pattern" => disk[1].learned_patterns[c.key] # <<>>
    /\ c.op = "store_task_completion"
          => \E k \in 1..Len(disk[1].task_history) :
                disk[1].task_history[k].task_id = c.id

\* two calls that do not write the same key
Disjoint(c, e) == c.op # e.op \/ c.key # e.key \/ c.id # e.id

\* C20: when two instances opened on the same file have each completed
\* one mutation, neither of them clear() and not both of the same key, the
\* file holds both mutations, in every interleaving.
C20_NoLostUpdate ==
    (/\ pc = "store"
     /\ Len(calls) = 2
     /\ calls[1].inst # calls[2].inst
     /\ calls[1].op # "clear" /\ calls[2].op # "clear"
     /\ Disjoint(calls[1], calls[2]))
        => Persisted(calls[1]) /\ Persisted(calls[2])

\* a fresh store opened on the file that save() wrote from the record m
FreshLoad(m) == load(DefaultMemory(clock), save(m))

\* the record m with every tuple among its preference values replaced by
\* the list of the same items
ClaimTuplesAsLists(m) ==
    [m EXCEPT !.user_preferences =
        [key \in PrefKeys |->
            [e \in 1..Len(m.user_preferences[key]) |->
                [m.user_preferences[key][e] EXCEPT
                    !.value.py = IF @ = "tuple" THEN "list" ELSE @]]]]

\* the records of the constructed instances
Records == {memory[i][1] : i \in {j \in Instances : memory[j] # <<>>}}

RunMessages ==
    <<"collect_tasks", "prioritize_tasks", "create_plan", "create_reminders",
      "reflect">>

\* the stages that have returned
StageIndex(at) ==
    CASE at = "start" -> 0
      [] at = "collected" -> 1
      [] at = "prioritized" -> 2
      [] at = "planned" -> 3
      [] at = "evaluated" -> 4
      [] at = "reminded" -> 5
      [] at = "completed" -> 6
      [] at = "raised" -> 7

\* the messages a run has sent when it has reached the stage: evaluation
\* sends none, and a stage that raises has sent its message
SentBy(at) ==
    CASE at = "start" -> 0
      [] at = "collected" -> 1
      [] at = "prioritized" -> 2
      [] at \in {"planned", "evaluated"} -> 3
      [] at = "reminded" -> 4
      [] at = "completed" -> 5
      [] at = "raised" -> IF reflection = NoReflection THEN 3 ELSE 5

\* the messages of this run: the queue without what the earlier run left
RunQueue ==
    IF Len(message_queue) > SentBy(pc)
    THEN SubSeq(message_queue, 4, Len(message_queue))
    ELSE message_queue

TaskNameSet(ts) == {ts[k].name : k \in 1..Len(ts)}

\* what each stage was handed is what an earlier stage returned, and what
\* a later stage returns is not there yet
ClaimDataFlow ==
    LET n == Len(RunQueue)
    IN  /\ n >= 1 => /\ RunQueue[1].data = raw_tasks
                     /\ Len(tasks) = Len(raw_tasks)
        /\ n >= 2 => /\ RunQueue[2].data = tasks
                     /\ Len(prioritized) = Len(tasks)
                     /\ TaskNameSet(prioritized) = TaskNameSet(tasks)
        /\ n >= 3 => RunQueue[3].data = prioritized
        /\ StageIndex(pc) \in 3..6
              => plan.task_count = Len(prioritized)
        /\ StageIndex(pc) \in 4..6
              => evaluation = evaluate_plan(plan, user_preferences)
        /\ n >= 4 => /\ RunQueue[4].data = plan
                     /\ reminders.reminder_count = plan.task_count
        /\ n >= 5 => RunQueue[5].data.planned_tasks = plan.scheduled_tasks
        /\ StageIndex(pc) < 2 => prioritized = <<>>
        /\ StageIndex(pc) < 3 => plan = NoPlan
        /\ StageIndex(pc) < 4 => evaluation = NoEvaluation
        /\ StageIndex(pc) < 5 => reminders = NoReminders
        /\ StageIndex(pc) < 6 => bundle = NoBundle

ClaimQueueInOrder ==
    /\ Len(message_queue) - SentBy(pc) \in {0, 3}
    /\ Len(RunQueue) = SentBy(pc)
    /\ \A k \in 1..Len(RunQueue) : RunQueue[k].type = RunMessages[k]

BundleKeys ==
    {"collected", "prioritized", "planned", "evaluation", "reminders",
     "reflection"}

\* C23: process_tasks has returned a bundle exactly when the run went
\* through all six stages; the bundle then has workflow_status "completed"
\* and holds the six outputs collected, prioritized, planned, evaluation,
\* reminders and reflection as the stages returned them; a run in which a
\* stage raised has returned no bundle, and before the last stage there is
\* none either.
C23_BundleOrRaise ==
    pc \in {"start", "collected", "prioritized", "planned", "evaluated",
            "reminded", "completed", "raised"} =>
        /\ bundle # NoBundle <=> pc = "completed"
        /\ pc = "raised" => bundle = NoBundle
        /\ pc = "completed" =>
              /\ bundle[1].workflow_status = "completed"
              /\ DOMAIN bundle[1].outputs = BundleKeys
              /\ bundle[1].outputs.collected = tasks
              /\ bundle[1].outputs.prioritized = prioritized
              /\ bundle[1].outputs.planned = plan
              /\ bundle[1].outputs.evaluation = evaluation
              /\ bundle[1].outputs.reminders = reminders
              /\ bundle[1].outputs.reflection = reflection
              /\ reflection.error = ""

C23_Witness ==
    /\ pc = "raised"
    /\ reflection.error = "TypeError"
    /\ Len(tasks) = 2
    /\ plan.task_count = 2
    /\ evaluation # NoEvaluation
    /\ reminders.reminder_count = 2
    /\ Len(message_queue) = 5
    /\ bundle = NoBundle

\* C24: once the scored tasks of a run have gone to the planner, the
\* planner has returned, not raised, and its schedule holds a task block
\* and a break block for every collected task, also when some tasks carry
\* a deadline and others none.
C24_InputDefectsNeverRaise ==
    pc \in {"planned", "evaluated", "raised"} =>
        /\ pc # "raised"
        /\ Len(Schedule) = 2 * Len(tasks)
        /\ plan.task_count = Len(tasks)

\* C25: when reflect_and_learn has returned from a call with at least one
\* completed task, the bank's learned_patterns holds an entry, and so does
\* the file.
C25_PatternsWritten ==
    (pc = "reflected" /\ completed_list # <<>>) =>
        \E name \in PatternNames :
            /\ memory[1][1].learned_patterns[name] # <<>>
            /\ disk # <<>>
            /\ disk[1].learned_patterns[name] # <<>>

\* C26: when a run of process_tasks has returned, the reflection agent
\* was handed the planner's blocks as its planned tasks and no completed
\* task, and for a schedule that is not empty the reflection of the bundle
\* reports planned_tasks = the number of blocks, completion_rate 0 and
\* replan_needed True.
C26_ReflectionSeesPlan ==
    pc = "completed" =>
        /\ planned_list = plan.scheduled_tasks
        /\ completed_list = <<>>
        /\ plan.scheduled_tasks # <<>> =>
              /\ reflection.completion_analysis.planned_tasks
                    = Len(plan.scheduled_tasks)
              /\ reflection.completion_analysis.completion_rate = 0
              /\ reflection.replan_needed

\* C27: for a plan the planner produced, the priority-alignment sub-score
\* is 25, minus 3 for each high-priority task that is the fourth or a later
\* task of the day, minus 2 when the first task has priority low; so it is
\* 25 when every high-priority task is among the first three tasks and the
\* first task is not low.
C27_LatenessCountsTasks ==
    pc = "evaluated" =>
        LET day == TaskItems(Schedule)
            late == {k \in 1..Len(day) : day[k].priority = "high" /\ k >= 4}
            lowFirst == day # <<>> /\ day[1].priority = "low"
        IN  evaluation.scores_breakdown.priority_alignment
              = Max(0, 25 - 3 * Cardinality(late)
                          - (IF lowFirst THEN 2 ELSE 0))

\* C28: when reflect_and_learn has returned, the completion analysis
\* reports a completion_rate from 0 to 100 and incomplete_tasks not below
\* 0, and where planned tasks exist its completion_rate is the one of the
\* re-planning decision.
C28_CompletionAnalysisRange ==
    pc = "reflected" =>
        /\ reflection.completion_analysis.completion_rate \in 0..1000
        /\ reflection.completion_analysis.incomplete_tasks >= 0
        /\ planned_list # <<>> =>
              _should_replan(completed_list, planned_list).completion_rate
                = reflection.completion_analysis.completion_rate

\* the sort key of the scheduler as the claim reads it: the priority rank,
\* then the deadline with a missing one first
ClaimSortKey(t) ==
    <<ClaimRank(t), IF t.deadline = DlNoKey THEN DlEmpty ELSE t.deadline>>

ClaimKeyLess(a, b) == a[1] < b[1] \/ (a[1] = b[1] /\ a[2] < b[2])

ClaimTimedOut(id) ==
    /\ sessions[id] # <<>>
    /\ seconds - sessions[id][1].last_accessed > 3600

\* C30: a call of get_session, get_context or update_context for a session
\* last accessed longer ago than the timeout returns None, None, False and
\* leaves the map without that session, written nowhere; for a session
\* within the timeout it returns the session, the value of the key (None
\* when missing), True, and sets last_accessed to the time of the call,
\* writing the key only in update_context; for an id the map does not hold
\* it returns None, None, False and changes nothing; process_tasks opens a
\* fresh session in place of a timed-out or missing one; and no call
\* touches another session.
C30_ExpiredNeverReturned ==
    [][outcome'.n = outcome.n + 1 =>
        LET id == outcome'.id
            op == outcome'.op
            access == op \in {"get_session", "get_context", "update_context"}
            refused == IF op = "update_context" THEN "False" ELSE "None"
        IN  /\ \A other \in SessionIds \ {id} :
                  sessions'[other] = sessions[other]
            /\ (access /\ ClaimTimedOut(id)) =>
                  /\ outcome'.returned = refused
                  /\ sessions'[id] = <<>>
            /\ (access /\ sessions[id] = <<>>) =>
                  /\ outcome'.returned = refused
                  /\ sessions' = sessions
            /\ (access /\ sessions[id] # <<>> /\ ~ClaimTimedOut(id)) =>
                  /\ sessions'[id] # <<>>
                  /\ sessions'[id][1].last_accessed = seconds
                  /\ op = "get_session" => outcome'.returned = "session"
                  /\ op = "update_context" =>
                        /\ outcome'.returned = "True"
                        /\ sessions'[id][1].context_data["collected_tasks"]
                              = <<"collected">>
                  /\ op # "update_context" =>
                        sessions'[id][1].context_data
                          = sessions[id][1].context_data
            /\ op = "process_tasks" =>
                  /\ sessions'[id] # <<>>
                  /\ sessions'[id][1].last_accessed = seconds
                  /\ (ClaimTimedOut(id) \/ sessions[id] = <<>>) =>
                        sessions'[id] = <<NewSession(seconds)>>
       ]_vars

C30_Witness ==
    /\ pc = "sessions"
    /\ outcome.n = 3
    /\ outcome.op = "update_context"
    /\ outcome.id = "s2"
    /\ outcome.found = "expired"
    /\ outcome.returned = "False"
    /\ sessions["s2"] = <<>>
    /\ sessions["s1"] # <<>>
    /\ seconds - sessions["s1"][1].last_accessed = 3600

====
